---- MODULE Spec2Model ----
(***************************************************************************)
(* Video2Pod: the dialogue synthesis pipeline (src/src/tts.py,             *)
(* generate_dialogue_audio and the functions it calls), the Volcengine     *)
(* synthesis client (src/src/volc_service.py) and the Volcengine           *)
(* transcription call with its transcript cache (src/src/transcriber.py).  *)
(*                                                                         *)
(* Text is a sequence of characters.  TLA+ strings are ASCII, so each      *)
(* character of the source is written as a token:                          *)
(*   "zhu" "chi" "ren"  the host marker            "jia" "bin"  the guest  *)
(*   "fwcolon" the full-width colon, ":" the half-width colon              *)
(*   "fwstop" "fwbang" "fwq" "fwsemi"  the full-width . ! ? ;              *)
(*   "fwlparen" "fwrparen" "fwlbrack" "fwrbrack"  full-width ( ) [ ]       *)
(*   "a" "b"   speakable characters (letters, digits, ideographs)          *)
(*   "nl"      the line feed, " " the space                                *)
(***************************************************************************)
EXTENDS Integers, Sequences, FiniteSets, TLC

(***************************************************************************)
(* Characters                                                              *)
(***************************************************************************)
Whitespace == {" ", "nl"}

\* Faulty variant: the comma is among the marks
SentenceMarksAndComma == {"fwstop", "fwbang", "fwq", "fwsemi", "!", "?", ";", ","}

SentenceMarks == {"fwstop", "fwbang", "fwq", "fwsemi", "!", "?", ";"}

OpenBrackets == {"(", "[", "{", "fwlparen", "fwlbrack"}

CloseBrackets == {")", "]", "}", "fwrparen", "fwrbrack"}

Emphasis == {"*", "_"}

\* str.isalnum() of one character: letters, digits and ideographs.
isalnum(c) == c \in {"a", "b", "zhu", "chi", "ren", "jia", "bin"}

HostMarker == <<"zhu", "chi", "ren">>

GuestMarker == <<"jia", "bin">>

startswith(s, p) == Len(s) >= Len(p) /\ SubSeq(s, 1, Len(p)) = p

RECURSIVE lstrip(_)
lstrip(s) ==
    IF s = <<>> THEN <<>>
    ELSE IF s[1] \in Whitespace THEN lstrip(Tail(s)) ELSE s

RECURSIVE rstrip(_)
rstrip(s) ==
    IF s = <<>> THEN <<>>
    ELSE IF s[Len(s)] \in Whitespace THEN rstrip(SubSeq(s, 1, Len(s) - 1)) ELSE s

\* str.strip()
strip(s) == rstrip(lstrip(s))

SetMin(S) == CHOOSE x \in S : \A y \in S : x <= y

\* str.split('\n')
RECURSIVE SplitLinesFrom(_, _)
SplitLinesFrom(s, cur) ==
    IF s = <<>> THEN <<cur>>
    ELSE IF s[1] = "nl" THEN <<cur>> \o SplitLinesFrom(Tail(s), <<>>)
    ELSE SplitLinesFrom(Tail(s), Append(cur, s[1]))

SplitLines(s) == SplitLinesFrom(s, <<>>)

(***************************************************************************)
(* clean_text_for_tts                                                      *)
(***************************************************************************)
\* re.sub(r'[\(\[\{...].*?[\)\]\}...]', '', text): leftmost, shortest, any
\* opening bracket up to the nearest closing bracket of any kind.
RECURSIVE RemoveBracketed(_)
RemoveBracketed(s) ==
    IF s = <<>> THEN <<>>
    ELSE LET closers == {j \in 2..Len(s) : s[j] \in CloseBrackets}
         IN  IF s[1] \in OpenBrackets /\ closers # {}
             THEN RemoveBracketed(SubSeq(s, SetMin(closers) + 1, Len(s)))
             ELSE <<s[1]>> \o RemoveBracketed(Tail(s))

NotEmphasis(c) == c \notin Emphasis

clean_text_for_tts(text) ==
    strip(SelectSeq(RemoveBracketed(text), NotEmphasis))

(***************************************************************************)
(* split_text_smart                                                        *)
(***************************************************************************)
\* re.split(r'([...])', text): the texts between the marks, each mark kept
\* as a part of its own.
\* Faulty variant: the pattern has no group, the marks are not kept
RECURSIVE ReSplitNoGroup(_, _)
ReSplitNoGroup(s, cur) ==
    IF s = <<>> THEN <<cur>>
    ELSE IF s[1] \in {"fwstop", "fwbang", "fwq", "fwsemi", "!", "?", ";"}
         THEN <<cur>> \o ReSplitNoGroup(Tail(s), <<>>)
         ELSE ReSplitNoGroup(Tail(s), Append(cur, s[1]))

RECURSIVE ReSplitFrom(_, _)
ReSplitFrom(s, cur) ==
    IF s = <<>> THEN <<cur>>
    ELSE IF s[1] \in SentenceMarks
         THEN <<cur, <<s[1]>>>> \o ReSplitFrom(Tail(s), <<>>)
         ELSE ReSplitFrom(Tail(s), Append(cur, s[1]))

ReSplit(s) == ReSplitFrom(s, <<>>)

\* re.match(r'[...]', part)
IsMarkPart(part) == part # <<>> /\ part[1] \in SentenceMarks

RECURSIVE SplitLoop(_, _, _)
SplitLoop(parts, current_chunk, chunks) ==
    IF parts = <<>>
    THEN IF strip(current_chunk) # <<>>
         THEN Append(chunks, strip(current_chunk))
         ELSE chunks
    ELSE LET cc == current_chunk \o parts[1]
         IN  IF IsMarkPart(parts[1])
             THEN SplitLoop(Tail(parts), <<>>,
                            IF strip(cc) # <<>> THEN Append(chunks, strip(cc))
                                                ELSE chunks)
             ELSE SplitLoop(Tail(parts), cc, chunks)

split_text_smart(text) == SplitLoop(ReSplit(text), <<>>, <<>>)

(***************************************************************************)
(* format_srt_time                                                         *)
(***************************************************************************)
\* Faulty variant: the minutes are not reduced to the hour
format_srt_time_minutes(ms) ==
    <<ms \div 3600000, ms \div 60000, (ms \div 1000) % 60, ms % 1000>>

format_srt_time(ms) ==
    LET seconds0     == ms \div 1000
        milliseconds == ms % 1000
        minutes0     == seconds0 \div 60
        seconds      == seconds0 % 60
        hours        == minutes0 \div 60
        minutes      == minutes0 % 60
    IN  <<hours, minutes, seconds, milliseconds>>

DigitChars == <<"0", "1", "2", "3", "4", "5", "6", "7", "8", "9">>

\* The decimal digits of a natural number.
RECURSIVE Decimal(_)
Decimal(k) ==
    IF k < 10 THEN <<DigitChars[k + 1]>>
    ELSE Decimal(k \div 10) \o <<DigitChars[(k % 10) + 1]>>

\* f"{k:0<width>d}": zeros in front up to the width, never a digit cut.
RECURSIVE Pad(_, _)
Pad(digits, width) ==
    IF Len(digits) >= width THEN digits ELSE Pad(<<"0">> \o digits, width)

\* The string format_srt_time returns for the four numbers.
StampText(stamp) ==
    Pad(Decimal(stamp[1]), 2) \o <<":">> \o Pad(Decimal(stamp[2]), 2) \o <<":">>
    \o Pad(Decimal(stamp[3]), 2) \o <<",">> \o Pad(Decimal(stamp[4]), 3)

(***************************************************************************)
(* Providers.  One synthesis call receives the remote service's answers    *)
(* to its successive attempts as a sequence resps; the retry loops below   *)
(* consume as many of them as the code makes requests.  A call's return    *)
(* is a record: result "written" (audio written to the output file, path   *)
(* returned), "returned" (path returned, nothing written), "none" (None    *)
(* returned, call skipped) or "raise"; requests is the number of remote    *)
(* requests made; endpoint names the remote endpoint used.                 *)
(***************************************************************************)
max_retries == 3

v3_max_retries == 3

v1_max_retries == 3

EdgeResponses == {"ok", "exc"}

\* HTTP 200 with audio data / HTTP 200 whose stream carries no audio data
\* (an error code, or the end code at once) / HTTP 200 with a line that is
\* no JSON / another HTTP status / a transport exception.
V3Responses == {"audio", "empty", "malformed", "http_err", "transport"}

\* HTTP 200 with "data" / HTTP 200 without "data" / another HTTP status /
\* a transport exception.
V1Responses == {"data", "nodata", "http_err", "transport"}

Call(result, requests, endpoint) ==
    [result |-> result, requests |-> requests, endpoint |-> endpoint]

\* Faulty variant: a failed attempt is not tried again
edge_attempts_once(resps, attempt) ==
    IF resps[attempt + 1] = "ok"
    THEN Call("written", attempt + 1, "edge")
    ELSE Call("raise", attempt + 1, "edge")

RECURSIVE edge_attempts(_, _)
edge_attempts(resps, attempt) ==
    IF resps[attempt + 1] = "ok"
    THEN Call("written", attempt + 1, "edge")
    ELSE IF attempt = max_retries - 1
         THEN Call("raise", attempt + 1, "edge")
         ELSE edge_attempts(resps, attempt + 1)

generate_audio_edge(text, resps) ==
    IF clean_text_for_tts(text) = <<>>
    THEN Call("none", 0, "edge")
    ELSE edge_attempts(resps, 0)

RECURSIVE v3_attempts(_, _)
v3_attempts(resps, attempt) ==
    LET r == resps[attempt + 1]
    IN  CASE r = "audio"     -> Call("written", attempt + 1, "v3")
          [] r = "empty"     -> Call("returned", attempt + 1, "v3")
          [] r = "malformed" -> Call("raise", attempt + 1, "v3")
          [] OTHER           ->
               IF attempt = v3_max_retries - 1
               THEN Call("raise", attempt + 1, "v3")
               ELSE v3_attempts(resps, attempt + 1)

\* credentials: VOLC_APPKEY and VOLC_ACCESS_TOKEN are set.
synthesize_v3_internal(resps, credentials) ==
    IF ~credentials THEN Call("raise", 0, "v3") ELSE v3_attempts(resps, 0)

\* Faulty variant: a failed attempt is not tried again
v1_attempts_once(resps, attempt) ==
    LET r == resps[attempt + 1]
    IN  IF r = "data"
        THEN Call("written", attempt + 1, "v1_icl")
        ELSE Call("raise", attempt + 1, "v1_icl")

RECURSIVE v1_attempts(_, _)
v1_attempts(resps, attempt) ==
    LET r == resps[attempt + 1]
    IN  CASE r = "data"   -> Call("written", attempt + 1, "v1_icl")
          [] r = "nodata" -> Call("raise", attempt + 1, "v1_icl")
          [] OTHER        ->
               IF attempt = v1_max_retries - 1
               THEN Call("raise", attempt + 1, "v1_icl")
               ELSE v1_attempts(resps, attempt + 1)

\* credentials: VOLC_APPID and VOLC_ACCESS_TOKEN are set.
synthesize_v1_internal(resps, credentials) ==
    IF ~credentials THEN Call("raise", 0, "v1_icl") ELSE v1_attempts(resps, 0)

ClonedPrefix == <<"S", "_">>

\* Faulty variant: the audio comes from a store of earlier results, no request made
synthesize_speech_stored(text, voice_type, resps, credentials) ==
    Call("written", 0, "store")

\* Faulty variant: every voice goes to the standard endpoint
synthesize_speech_standard(text, voice_type, resps, credentials) ==
    synthesize_v3_internal(resps, credentials)

\* Every call goes to the remote service: nothing is looked up first.
synthesize_speech(text, voice_type, resps, credentials) ==
    IF startswith(voice_type, ClonedPrefix)
    THEN synthesize_v1_internal(resps, credentials)
    ELSE synthesize_v3_internal(resps, credentials)

HasAlnum(s) == \E p \in 1..Len(s) : isalnum(s[p])

generate_audio_volc(text, voice_type, resps, credentials) ==
    LET cleaned == clean_text_for_tts(text)
    IN  IF cleaned = <<>> \/ ~HasAlnum(cleaned)
        THEN Call("none", 0, "volc")
        ELSE synthesize_speech(cleaned, voice_type, resps, credentials)

generate_audio_sync(text, voice, provider, resps, credentials) ==
    IF provider = "volc"
    THEN generate_audio_volc(text, voice, resps, credentials)
    ELSE generate_audio_edge(text, resps)

\* rate_str of generate_audio_edge, as its number of percent:
\* int((rate - 1.0) * 100), rate being in tenths here.  For the rates of
\* the configurations below (1.0, 1.3) the floating-point product
\* truncates to this number.
edge_rate_percent(rate) == (rate - 10) * 10

\* What a request to the endpoint carries of the call's arguments:
\* edge_tts.Communicate(text, voice, rate=rate_str); the request_json of
\* _synthesize_v3_internal, which has "text" and "speaker" and no field
\* for speed_ratio; the request_json of _synthesize_v1_internal, with
\* "voice_type", "speed_ratio" and "text".
RequestOf(endpoint, text, voice, rate) ==
    CASE endpoint = "edge"   ->
           [text |-> text, voice |-> voice, rate |-> edge_rate_percent(rate)]
      [] endpoint = "v3"     -> [text |-> text, speaker |-> voice]
      [] endpoint = "v1_icl" ->
           [text |-> text, voice_type |-> voice, speed_ratio |-> rate]
      [] OTHER               -> [text |-> text]

\* A call's return together with the answers its attempts were given;
\* they are kept for the attempts of generate_audio_edge.
Answered(call, resps) ==
    [result |-> call.result, requests |-> call.requests,
     endpoint |-> call.endpoint,
     answers |-> IF call.endpoint = "edge"
                 THEN SubSeq(resps, 1, call.requests)
                 ELSE <<>>]

\* The answers a provider can give to the attempts of one call.
ResponsesOf(provider, voice) ==
    IF provider = "volc"
    THEN IF startswith(voice, ClonedPrefix)
         THEN [1..v1_max_retries -> V1Responses]
         ELSE [1..v3_max_retries -> V3Responses]
    ELSE [1..max_retries -> EdgeResponses]

(***************************************************************************)
(* Inputs of generate_dialogue_audio                                       *)
(***************************************************************************)
Roles == {"host", "guest"}

\* "zh-CN-YunxiNeural", "BV001_streaming", "S_0VWdKj6T1" (abridged)
EdgeVoice == <<"z", "h">>

StandardVoice == <<"B", "V">>

ClonedVoice == <<"S", "_", "0">>

\* rate is in tenths: 13 is the speed multiplier 1.3
EdgeConfig == [voice |-> EdgeVoice, provider |-> "edge", rate |-> 13]

VolcConfig == [voice |-> StandardVoice, provider |-> "volc", rate |-> 13]

ClonedConfig == [voice |-> ClonedVoice, provider |-> "volc", rate |-> 10]

\* An id typed into the host's voice field, with "S_" past its start.
TypedVoice == <<"B", "S", "_">>

TypedConfig == [voice |-> TypedVoice, provider |-> "volc", rate |-> 13]

\* <<host_config, guest_config>>
ConfigPairs ==
    { <<EdgeConfig, EdgeConfig>>, <<EdgeConfig, VolcConfig>>,
      <<VolcConfig, ClonedConfig>>, <<ClonedConfig, EdgeConfig>>,
      <<TypedConfig, ClonedConfig>> }

HostFW == HostMarker \o <<"fwcolon">>

HostHW == HostMarker \o <<":">>

GuestFW == GuestMarker \o <<"fwcolon">>

GuestHW == GuestMarker \o <<":">>

\* The scripts a run is given.
Scripts ==
    { \* two lines, one sentence each (the example of the documentation)
      HostFW \o <<"a", "fwstop", "nl">> \o GuestFW \o <<"b", ",", "a", "fwbang">>,
      \* a question closed by two marks: the second chunk is a mark alone
      HostFW \o <<"a", "fwq", "fwbang">>,
      \* a stage direction alone on the guest's line, then a host line
      GuestFW \o <<"fwlparen", "a", "fwrparen", "nl">> \o HostHW \o <<"b", "fwstop">>,
      \* a line that is a prefix only, a blank line, a guest line, two chunks
      HostFW \o <<"nl", "nl">> \o GuestHW \o <<"a", "fwsemi", " ", "b">>,
      \* no prefix: host; three chunks, the first and the last alike
      <<"a", "fwstop", "b", "?", "a", "fwstop">>,
      \* nothing but a stage direction
      GuestFW \o <<"(", "a", ")">>,
      \* nothing but a prefix, inside blank space
      <<" ", "nl">> \o HostFW \o <<" ">>,
      \* the guest marker without a colon, after blank space
      <<" ">> \o GuestMarker \o <<"a", "fwstop">> }

\* Milliseconds of audio a successful synthesis writes.
Durations == {800, 61000}

\* How many times generate_dialogue_audio is called on one task directory.
MaxRuns == 2

pause_duration == 300

(***************************************************************************)
(* State                                                                   *)
(***************************************************************************)
VARIABLES
    pc,                \* where generate_dialogue_audio stands
    runs,              \* calls made so far
    host_config, guest_config,
    lines, i,          \* the script's lines and the line loop's position
    role, sub_chunks, j,
    global_seg_index,
    valid_segments,
    n,                 \* position of the stitching loop / the caption loop
    final_audio,       \* the pieces appended so far: [src, duration]
    srt_content,       \* the cues appended so far
    current_time_ms,
    remotion_captions,
    curr_ms_json,
    error,             \* the exception a raising call ends with
    segFiles,          \* <segments_dir>/seg_<index>_<role>.mp3 -> duration
    out_mp3, out_srt, out_json,   \* what this call wrote to output_file,
                                  \* output_file.srt, output_file.json
    chunkLog,          \* history: one record per chunk of this call
    lastCall           \* history: the synthesis call the latest step made

ttsVars ==
    <<pc, runs, host_config, guest_config, lines, i, role, sub_chunks, j,
      global_seg_index, valid_segments, n, final_audio, srt_content,
      current_time_ms, remotion_captions, curr_ms_json, error, segFiles,
      out_mp3, out_srt, out_json, chunkLog, lastCall>>

\* The state of the transcription call (its actions are further down).
VARIABLES
    apc,               \* where transcribe_volc stands
    calls,             \* calls made so far
    audio_file_path, resume_task_id, task_id_callback,
    task_id,
    cacheFiles,        \* <audio_file_path>.volc.txt -> its content
    jobs,              \* the service's jobs: the audio of task 1, 2, ...
    uploads, submits, polls,   \* remote requests of the current call
    running,           \* "running" answers the current call has had
    callbackLog,       \* task ids the current call handed to the callback
    aresult,           \* what the call returned or raised
    asrLog,            \* history: one record per finished call
    events,            \* history: the remote requests and the callback
                       \* invocations of the current call, in order
    remote,            \* the service's state of task 1, 2, ...
    task_data          \* the application's saved task state: key -> value

asrVars ==
    <<apc, calls, audio_file_path, resume_task_id, task_id_callback, task_id,
      cacheFiles, jobs, uploads, submits, polls, running, callbackLog, aresult,
      asrLog, events, remote, task_data>>

\* A function of the module applied to an argument by itself.
VARIABLES
    fpc,               \* which function, and whether it has been applied
    text_in,           \* split_text_smart: the text
    chunks_out,        \* split_text_smart: the chunks returned
    ms_in, dur_in,     \* a cue: current_time_ms and the segment's duration
    stamps_out,        \* a cue: start_time_str and end_time_str
    voice_in,          \* synthesize_speech: voice_type
    resps_in,          \* synthesize_speech: the service's answers
    cred_in,           \* synthesize_speech: whether the credentials are set
    call_out           \* synthesize_speech: what the call did

fnVars ==
    <<fpc, text_in, chunks_out, ms_in, dur_in, stamps_out,
      voice_in, resps_in, cred_in, call_out>>

\* The audio files process_video_step has extracted.
VARIABLES
    extracted          \* history: one record per step, [path, content]

\* Two calls of transcribe_volc for one audio at the same time, taken
\* statement by statement around the cache file.
VARIABLES
    cpc,               \* where each call stands
    ctext,             \* what each call returned
    cpos,              \* how much of its transcript each call has flushed
    cdisk,             \* the cache file: whether it exists, and its data
    payload            \* the transcript the service has for the audio

cacheVars == <<cpc, ctext, cpos, cdisk, payload>>

\* Two calls of generate_dialogue_audio at the same time, taken segment
\* file by segment file.
VARIABLES
    spc,               \* where each call stands
    sdir,              \* dirname(output_file) of each call
    sroles,            \* the roles of the chunks each call has still to do
    sidx,              \* global_seg_index of each call
    swriting,          \* the segment file each call has open for writing
    swritten           \* history: the segment files each call has written

segVars == <<spc, sdir, sroles, sidx, swriting, swritten>>

\* The poll loop of transcribe_volc against the service's answers, which
\* are taken as the service sends them.
VARIABLES
    qpc,               \* where the call stands
    qhow,              \* whether the call submitted the job or resumes it
    qversion,          \* VolcService.version: "v1" or "v2"
    qjob,              \* what the service answers to a query of the job
    qwaited,            \* whether the call has been told to wait
    qresult            \* what the call returned or raised

pollVars == <<qpc, qhow, qversion, qjob, qwaited, qresult>>

auxVars == <<fnVars, extracted, cacheVars, segVars, pollVars>>

vars == <<ttsVars, asrVars, auxVars>>

NoCall == [kind |-> "nocall"]

\* A file that was not written is the empty sequence of writes.
NotWritten == <<>>

TtsInit ==
    /\ pc = "idle"
    /\ runs = 0
    /\ host_config = EdgeConfig
    /\ guest_config = EdgeConfig
    /\ lines = <<>>
    /\ i = 1
    /\ role = "host"
    /\ sub_chunks = <<>>
    /\ j = 1
    /\ global_seg_index = 0
    /\ valid_segments = <<>>
    /\ n = 1
    /\ final_audio = <<>>
    /\ srt_content = <<>>
    /\ current_time_ms = 0
    /\ remotion_captions = <<>>
    /\ curr_ms_json = 0
    /\ error = "none"
    /\ segFiles = <<>>
    /\ out_mp3 = NotWritten
    /\ out_srt = NotWritten
    /\ out_json = NotWritten
    /\ chunkLog = <<>>
    /\ lastCall = NoCall

(***************************************************************************)
(* generate_dialogue_audio                                                 *)
(***************************************************************************)
\* Entry: the segments directory is that of output_file's directory and is
\* kept from call to call; the script is stripped and cut into lines.
StartRun ==
    /\ pc = "idle"
    /\ runs < MaxRuns
    /\ \E text \in Scripts, cfg \in ConfigPairs :
         /\ host_config' = cfg[1]
         /\ guest_config' = cfg[2]
         /\ lines' = SplitLines(strip(text))
    /\ runs' = runs + 1
    /\ pc' = "line"
    /\ i' = 1
    /\ j' = 1
    /\ n' = 1
    /\ role' = "host"
    /\ sub_chunks' = <<>>
    /\ global_seg_index' = 0
    /\ valid_segments' = <<>>
    /\ final_audio' = <<>>
    /\ srt_content' = <<>>
    /\ current_time_ms' = 0
    /\ remotion_captions' = <<>>
    /\ curr_ms_json' = 0
    /\ error' = "none"
    /\ out_mp3' = NotWritten
    /\ out_srt' = NotWritten
    /\ out_json' = NotWritten
    /\ chunkLog' = <<>>
    /\ lastCall' = NoCall
    /\ UNCHANGED <<segFiles, asrVars, auxVars>>

\* Faulty variant: only the full-width colon ends a prefix
ParseLineFullWidth(line) ==
    IF startswith(line, HostFW)
    THEN [role |-> "host", content |-> strip(SubSeq(line, Len(HostFW) + 1, Len(line)))]
    ELSE IF startswith(line, GuestFW)
    THEN [role |-> "guest", content |-> strip(SubSeq(line, Len(GuestFW) + 1, Len(line)))]
    ELSE [role |-> "host", content |-> line]

\* The role and the content of a stripped, non-empty line.
ParseLine(line) ==
    IF startswith(line, HostFW) \/ startswith(line, HostHW)
    THEN [role |-> "host", content |-> strip(SubSeq(line, Len(HostFW) + 1, Len(line)))]
    ELSE IF startswith(line, GuestFW) \/ startswith(line, GuestHW)
    THEN [role |-> "guest", content |-> strip(SubSeq(line, Len(GuestFW) + 1, Len(line)))]
    ELSE [role |-> "host", content |-> line]

\* One turn of the loop over the lines, up to the loop over its chunks.
NextLine ==
    /\ pc = "line"
    /\ i <= Len(lines)
    /\ LET line   == strip(lines[i])
           parsed == ParseLine(line)
           chunks == split_text_smart(parsed.content)
       IN  IF line = <<>> \/ parsed.content = <<>>
           THEN /\ i' = i + 1
                /\ UNCHANGED <<pc, role, sub_chunks, j>>
           ELSE /\ role' = parsed.role
                /\ sub_chunks' = IF chunks = <<>> THEN <<parsed.content>> ELSE chunks
                /\ j' = 1
                /\ pc' = "chunk"
                /\ UNCHANGED i
    /\ lastCall' = NoCall
    /\ UNCHANGED <<runs, host_config, guest_config, lines, global_seg_index,
                   valid_segments, n, final_audio, srt_content, current_time_ms,
                   remotion_captions, curr_ms_json, error, segFiles, out_mp3,
                   out_srt, out_json, chunkLog,
                   asrVars, auxVars>>

WriteFile(files, name, content) ==
    [f \in (DOMAIN files) \cup {name} |-> IF f = name THEN content ELSE files[f]]

\* Faulty variant: the append is made whatever the call did
JoinsAlways(call) == TRUE

\* Whether the chunk joins valid_segments after its synthesis call: the
\* append follows the call and is skipped only by an exception.
Joins(call) == call.result # "raise"

\* Faulty variant: the new segment is put in front
PrependSegment(segments, seg) == <<seg>> \o segments

\* valid_segments.append(...)
AddSegment(segments, seg) == Append(segments, seg)

\* Faulty variant: the index is left as it is
KeepIndex(index) == index

\* global_seg_index += 1
AdvanceIndex(index) == index + 1

\* Faulty variant: the host's configuration is used for every chunk
ConfigForHostOnly(r, host, guest) == host

\* config = host_config if role == "host" else guest_config
ConfigFor(r, host, guest) == IF r = "host" THEN host ELSE guest

\* One turn of the loop over the chunks of a line: the segment file is
\* named, the index advances, the provider is called.
SynthChunk ==
    /\ pc = "chunk"
    /\ j <= Len(sub_chunks)
    /\ LET chunk    == sub_chunks[j]
           config   == ConfigFor(role, host_config, guest_config)
           seg_file == <<global_seg_index, role>>
           \* what the call can return, over the service's answers, with
           \* the answers it took
           returns  == { Answered(generate_audio_sync(chunk, config.voice,
                                      config.provider, resps, credentials), resps) :
                           resps \in ResponsesOf(config.provider, config.voice),
                           credentials \in BOOLEAN }
       IN  \E call \in returns :
                 /\ \/ /\ call.result = "written"
                       /\ \E duration \in Durations :
                            segFiles' = WriteFile(segFiles, seg_file, duration)
                    \/ /\ call.result # "written"
                       /\ UNCHANGED segFiles
                 /\ valid_segments' =
                      IF Joins(call)
                      THEN AddSegment(valid_segments,
                                  [file |-> seg_file, content |-> chunk, role |-> role])
                      ELSE valid_segments
                 /\ chunkLog' = Append(chunkLog,
                                  [index |-> global_seg_index, role |-> role,
                                   line |-> i, content |-> chunk,
                                   result |-> call.result])
                 /\ lastCall' = [kind |-> "synth", text |-> clean_text_for_tts(chunk),
                                 voice |-> config.voice, provider |-> config.provider,
                                 rate |-> config.rate, index |-> global_seg_index,
                                 result |-> call.result, requests |-> call.requests,
                                 endpoint |-> call.endpoint,
                                 answers |-> call.answers,
                                 body |-> RequestOf(call.endpoint,
                                            clean_text_for_tts(chunk),
                                            config.voice, config.rate)]
    /\ global_seg_index' = AdvanceIndex(global_seg_index)
    /\ IF j = Len(sub_chunks)
       THEN /\ pc' = "line"
            /\ i' = i + 1
            /\ j' = 1
       ELSE /\ j' = j + 1
            /\ UNCHANGED <<pc, i>>
    /\ UNCHANGED <<runs, host_config, guest_config, lines, role, sub_chunks, n,
                   final_audio, srt_content, current_time_ms, remotion_captions,
                   curr_ms_json, error, out_mp3, out_srt, out_json,
                   asrVars, auxVars>>

\* Faulty variant: the check for an empty list is missing
NoSegmentsUnchecked(segments) == FALSE

\* not valid_segments
NoSegments(segments) == segments = <<>>

\* After the last line: no segment is an error, else stitching starts.
EndLines ==
    /\ pc = "line"
    /\ i > Len(lines)
    /\ IF NoSegments(valid_segments)
       THEN /\ pc' = "raised"
            /\ error' = "No audio segments generated."
       ELSE /\ pc' = "stitch"
            /\ UNCHANGED error
    /\ n' = 1
    /\ lastCall' = NoCall
    /\ final_audio' = <<>>
    /\ srt_content' = <<>>
    /\ current_time_ms' = 0
    /\ UNCHANGED <<runs, host_config, guest_config, lines, i, role, sub_chunks, j,
                   global_seg_index, valid_segments, remotion_captions,
                   curr_ms_json, segFiles, out_mp3, out_srt, out_json, chunkLog,
                   asrVars, auxVars>>

Color(r) == IF r = "host" THEN "#FFD700" ELSE "#00FFFF"

\* One cue of the subtitle text: number, the two stamps, the coloured text.
Cue(number, start_ms, end_ms, seg) ==
    [number |-> number,
     start  |-> format_srt_time(start_ms),
     end    |-> format_srt_time(end_ms),
     color  |-> Color(seg.role),
     text   |-> seg.content]

\* Faulty variant: the pause is not counted
NextCueTimeNoPause(t, duration) == t + duration

\* current_time_ms += duration + pause_duration
NextCueTime(t, duration) == t + duration + pause_duration

\* One turn of the stitching loop.  AudioSegment.from_mp3 raises when the
\* segment file does not exist.
StitchSegment ==
    /\ pc = "stitch"
    /\ n <= Len(valid_segments)
    /\ LET seg == valid_segments[n]
       IN  IF seg.file \notin DOMAIN segFiles
           THEN /\ pc' = "raised"
                /\ error' = "FileNotFoundError"
                /\ UNCHANGED <<n, final_audio, srt_content, current_time_ms>>
           ELSE LET duration == segFiles[seg.file]
                IN  /\ final_audio' = final_audio \o
                          << [src |-> seg.file, duration |-> duration],
                             [src |-> "silent", duration |-> pause_duration] >>
                    /\ srt_content' = Append(srt_content,
                          Cue(n, current_time_ms, current_time_ms + duration, seg))
                    /\ current_time_ms' = NextCueTime(current_time_ms, duration)
                    /\ n' = n + 1
                    /\ UNCHANGED <<pc, error>>
    /\ UNCHANGED <<runs, host_config, guest_config, lines, i, role, sub_chunks, j,
                   global_seg_index, valid_segments, remotion_captions,
                   curr_ms_json, segFiles, out_mp3, out_srt, out_json, chunkLog,
                   lastCall,
                   asrVars, auxVars>>

\* Faulty variant: the loop is left at any turn
LoopDoneAnyTurn(position, segments) == TRUE

\* for i, seg in enumerate(valid_segments): the loop has taken every
\* segment.
LoopDone(position, segments) == position > Len(segments)

\* The audio and the subtitle file are written; the caption pass starts.
Export ==
    /\ pc = "stitch"
    /\ LoopDone(n, valid_segments)
    /\ out_mp3' = <<final_audio>>
    /\ out_srt' = <<srt_content>>
    /\ remotion_captions' = <<>>
    /\ curr_ms_json' = 0
    /\ n' = 1
    /\ pc' = "json"
    /\ UNCHANGED <<runs, host_config, guest_config, lines, i, role, sub_chunks, j,
                   global_seg_index, valid_segments, final_audio, srt_content,
                   current_time_ms, error, segFiles, out_json, chunkLog, lastCall,
                   asrVars, auxVars>>

Caption(start_ms, end_ms, seg) ==
    [start |-> start_ms, end |-> end_ms, content |-> seg.content, role |-> seg.role]

\* Faulty variant: the pause is not counted
NextCaptionTimeNoPause(t, seg_dur) == t + seg_dur

\* curr_ms_json += seg_dur + pause_duration
NextCaptionTime(t, seg_dur) == t + seg_dur + pause_duration

\* One turn of the caption loop: the segment file is loaded again.
JsonSegment ==
    /\ pc = "json"
    /\ n <= Len(valid_segments)
    /\ LET seg == valid_segments[n]
       IN  IF seg.file \notin DOMAIN segFiles
           THEN /\ pc' = "raised"
                /\ error' = "FileNotFoundError"
                /\ UNCHANGED <<n, remotion_captions, curr_ms_json>>
           ELSE LET seg_dur == segFiles[seg.file]
                IN  /\ remotion_captions' = Append(remotion_captions,
                          Caption(curr_ms_json, curr_ms_json + seg_dur, seg))
                    /\ curr_ms_json' = NextCaptionTime(curr_ms_json, seg_dur)
                    /\ n' = n + 1
                    /\ UNCHANGED <<pc, error>>
    /\ UNCHANGED <<runs, host_config, guest_config, lines, i, role, sub_chunks, j,
                   global_seg_index, valid_segments, final_audio, srt_content,
                   current_time_ms, segFiles, out_mp3, out_srt, out_json, chunkLog,
                   lastCall,
                   asrVars, auxVars>>

\* Faulty variant: the total stops at the end of the last caption
DurationToLastEnd(ms) == <<ms - pause_duration, 1000>>

\* "durationInSeconds": curr_ms_json / 1000, kept as the pair it divides.
DurationInSeconds(ms) == <<ms, 1000>>

\* The caption document is written and the call returns output_file.
WriteJson ==
    /\ pc = "json"
    /\ n > Len(valid_segments)
    /\ out_json' = << [captions |-> remotion_captions,
                       durationInSeconds |-> DurationInSeconds(curr_ms_json)] >>
    /\ pc' = "returned"
    /\ UNCHANGED <<runs, host_config, guest_config, lines, i, role, sub_chunks, j,
                   global_seg_index, valid_segments, n, final_audio, srt_content,
                   current_time_ms, remotion_captions, curr_ms_json, error,
                   segFiles, out_mp3, out_srt, chunkLog, lastCall,
                   asrVars, auxVars>>

\* Control is back with the caller, which may call again on the same task
\* directory.
Return ==
    /\ pc \in {"returned", "raised"}
    /\ pc' = "idle"
    /\ UNCHANGED <<runs, host_config, guest_config, lines, i, role, sub_chunks, j,
                   global_seg_index, valid_segments, n, final_audio, srt_content,
                   current_time_ms, remotion_captions, curr_ms_json, error,
                   segFiles, out_mp3, out_srt, out_json, chunkLog, lastCall,
                   asrVars, auxVars>>

(***************************************************************************)
(* What happens to a call of generate_dialogue_audio from outside          *)
(***************************************************************************)
\* The call is interrupted (KeyboardInterrupt, the script runner stopping
\* the script): an exception that no "except Exception" of the function
\* catches leaves it from where it stands.
Cancel ==
    /\ pc \in {"line", "chunk", "stitch", "json"}
    /\ pc' = "raised"
    /\ error' = "KeyboardInterrupt"
    /\ UNCHANGED <<runs, host_config, guest_config, lines, i, role, sub_chunks, j,
                   global_seg_index, valid_segments, n, final_audio, srt_content,
                   current_time_ms, remotion_captions, curr_ms_json,
                   segFiles, out_mp3, out_srt, out_json, chunkLog, lastCall,
                   asrVars, auxVars>>

\* Another call for the same task directory (a second session, a second
\* press of the button) writes a segment file anew. Of its writes the one
\* taken here is of the file this call measures next in its caption pass,
\* after its subtitle pass has measured it.
OtherWriter ==
    /\ pc = "json"
    /\ n <= Len(valid_segments)
    /\ valid_segments[n].file \in DOMAIN segFiles
    /\ \E duration \in Durations :
         /\ segFiles[valid_segments[n].file] # duration
         /\ segFiles' = [segFiles EXCEPT ![valid_segments[n].file] = duration]
    /\ UNCHANGED <<pc, runs, host_config, guest_config, lines, i, role, sub_chunks,
                   j, global_seg_index, valid_segments, n, final_audio,
                   srt_content, current_time_ms, remotion_captions, curr_ms_json,
                   error, out_mp3, out_srt, out_json, chunkLog, lastCall,
                   asrVars, auxVars>>

(***************************************************************************)
(* Transcriber.transcribe_volc and its transcript cache                    *)
(***************************************************************************)
\* Audio files a call may name; the last one does not exist.
AudioPaths == {"a.mp3", "b.mp3", "missing.mp3"}

ExistingAudio == {"a.mp3", "b.mp3"}

\* Texts the recogniser returns: no text, one word, two lines.  A
\* recognised text carries no carriage return.
Transcripts == {<<>>, <<"a">>, <<"a", "nl", "b">>}

\* How many times transcribe_volc is called.
MaxCalls == 2

\* How many polls of one call the service answers with "running".
MaxRunning == 2

None == <<>>

\* open(cache_file, "r").read(): universal newlines, "\r\n" and "\r" are
\* read as "\n".
RECURSIVE ReadText(_)
ReadText(data) ==
    IF data = <<>> THEN <<>>
    ELSE IF data[1] = "cr"
         THEN <<"nl">> \o ReadText(IF Len(data) > 1 /\ data[2] = "nl"
                                   THEN SubSeq(data, 3, Len(data))
                                   ELSE Tail(data))
         ELSE <<data[1]>> \o ReadText(Tail(data))

\* open(cache_file, "w").write(transcript): "\n" is written as the line
\* separator, which is "\n".
WriteText(transcript) == transcript


\* What the service says of a failed job: the V2 status 20000003, a V1
\* code below 2000 ("<code>: <message>").
FailMessages == {"Silent audio detected (20000003)", "1013: audio error"}

AsrInit ==
    /\ apc = "idle"
    /\ calls = 0
    /\ audio_file_path = "a.mp3"
    /\ resume_task_id = None
    /\ task_id_callback = FALSE
    /\ task_id = None
    /\ cacheFiles = <<>>
    /\ jobs = <<>>
    /\ uploads = 0
    /\ submits = 0
    /\ polls = 0
    /\ running = 0
    /\ callbackLog = <<>>
    /\ aresult = [kind |-> "none"]
    /\ asrLog = <<>>
    /\ events = <<>>
    /\ remote = <<>>
    /\ task_data = <<>>

CachePath(path) == <<path, ".volc.txt">>

\* Faulty variant: the lookup uses the name of the other provider's cache file
CacheLookupOtherName(path) ==
    IF <<path, ".txt">> \in DOMAIN cacheFiles
    THEN [hit |-> TRUE, text |-> ReadText(cacheFiles[<<path, ".txt">>])]
    ELSE [hit |-> FALSE]

\* The cache is looked up before anything else is done with the file.
CacheLookup(path) ==
    IF CachePath(path) \in DOMAIN cacheFiles
    THEN [hit |-> TRUE, text |-> ReadText(cacheFiles[CachePath(path)])]
    ELSE [hit |-> FALSE]

NewTaskId == <<"task", Len(jobs) + 1>>

\* The task ids the service has issued.
IssuedIds == {<<"task", k>> : k \in 1..Len(jobs)}

\* One entry of events.
Event(op, id, status) == [op |-> op, id |-> id, status |-> status]

\* A job the service has just accepted.
RunningJob == [status |-> "running", text |-> <<>>, message |-> ""]

\* Faulty variant: a task id to resume is not looked at, the audio is sent again
FirstStepSubmits(resume) == "upload"

\* task_id = resume_task_id; if not task_id: upload and submit, else poll.
FirstStep(resume) == IF resume = None THEN "upload" ELSE "poll"

\* The body of transcribe_volc up to its first remote request.
transcribe_volc(path, resume, cb) ==
    /\ audio_file_path' = path
    /\ resume_task_id' = resume
    /\ task_id_callback' = cb
    /\ IF path \notin ExistingAudio
       THEN /\ apc' = "raised"
            /\ aresult' = [kind |-> "raise", error |-> "FileNotFoundError"]
            /\ task_id' = None
       ELSE IF CacheLookup(path).hit
       THEN /\ apc' = "returned"
            /\ aresult' = [kind |-> "return", text |-> CacheLookup(path).text]
            /\ task_id' = None
       ELSE /\ task_id' = resume
            /\ apc' = FirstStep(resume)
            /\ aresult' = [kind |-> "none"]
    /\ uploads' = 0
    /\ submits' = 0
    /\ polls' = 0
    /\ running' = 0
    /\ callbackLog' = <<>>
    /\ events' = <<>>
    /\ UNCHANGED <<cacheFiles, jobs, remote, asrLog>>

\* Entry of transcribe_volc, called with any arguments.
AsrCall ==
    /\ apc = "idle"
    /\ calls < MaxCalls
    /\ calls' = calls + 1
    /\ \E path \in AudioPaths, resume \in {None} \cup IssuedIds, cb \in BOOLEAN :
         transcribe_volc(path, resume, cb)
    /\ UNCHANGED <<task_data, ttsVars, auxVars>>

\* Faulty variant: a failed upload is tried again
AfterUploadRetries(ok) == IF ok THEN "submit" ELSE "upload"

\* upload_to_tos returns the URL, or its exception leaves transcribe_volc.
AfterUpload(ok) == IF ok THEN "submit" ELSE "raised"

\* volc_service.upload_to_tos: the URL, or an exception.
Upload ==
    /\ apc = "upload"
    /\ uploads' = uploads + 1
    /\ \E ok \in BOOLEAN :
         /\ apc' = AfterUpload(ok)
         /\ events' = Append(events, Event("upload", None, IF ok THEN "ok" ELSE "exc"))
         /\ IF ok
            THEN UNCHANGED aresult
            ELSE aresult' = [kind |-> "raise", error |-> "upload"]
    /\ UNCHANGED <<calls, audio_file_path, resume_task_id, task_id_callback,
                   task_id, cacheFiles, jobs, submits, polls, running,
                   callbackLog, asrLog, remote, task_data,
                   ttsVars, auxVars>>

\* Faulty variant: the callback is passed over
AfterSubmitNoCallback(cb) == "poll"

\* if task_id_callback: task_id_callback(task_id), then the poll loop.
AfterSubmit(cb) == IF cb THEN "callback" ELSE "poll"

\* volc_service.submit_asr_task: a new task id, or an exception.
Submit ==
    /\ apc = "submit"
    /\ submits' = submits + 1
    /\ \E ok \in BOOLEAN :
         IF ok
         THEN /\ task_id' = NewTaskId
              /\ jobs' = Append(jobs, audio_file_path)
              /\ remote' = Append(remote, RunningJob)
              /\ events' = Append(events, Event("submit", NewTaskId, "ok"))
              /\ apc' = AfterSubmit(task_id_callback)
              /\ UNCHANGED aresult
         ELSE /\ apc' = "raised"
              /\ aresult' = [kind |-> "raise", error |-> "submit"]
              /\ events' = Append(events, Event("submit", None, "exc"))
              /\ UNCHANGED <<task_id, jobs, remote>>
    /\ UNCHANGED <<calls, audio_file_path, resume_task_id, task_id_callback,
                   cacheFiles, uploads, polls, running, callbackLog, asrLog,
                   task_data,
                   ttsVars, auxVars>>

\* task_id_callback(task_id): returns, or raises.
Callback ==
    /\ apc = "callback"
    /\ callbackLog' = Append(callbackLog, task_id)
    /\ \E ok \in BOOLEAN :
         /\ events' = Append(events, Event("callback", task_id, IF ok THEN "ok" ELSE "exc"))
         /\ IF ok
            THEN apc' = "poll" /\ UNCHANGED aresult
            ELSE /\ apc' = "raised"
                 /\ aresult' = [kind |-> "raise", error |-> "callback"]
    /\ UNCHANGED <<calls, audio_file_path, resume_task_id, task_id_callback,
                   task_id, cacheFiles, jobs, uploads, submits, polls, running,
                   asrLog, remote, task_data,
                   ttsVars, auxVars>>

\* What the service has made of a job by the time it is asked: a job that
\* has ended stays as it ended, a running job may have ended either way,
\* or (mayRun) still runs.
JobOutcomes(job, mayRun) ==
    IF job.status # "running"
    THEN {job}
    ELSE {[status |-> "success", text |-> t, message |-> ""] : t \in Transcripts}
         \cup {[status |-> "failed", text |-> <<>>, message |-> m] : m \in FailMessages}
         \cup (IF mayRun THEN {job} ELSE {})

\* volc_service.get_asr_result(task_id): the job's state as "success",
\* "failed" or "running", or an exception (the request fails, the answer
\* cannot be read, the V2 status code is none of those the code knows);
\* an exception says nothing of the job, which is as it was.
get_asr_result(id, mayRun) ==
    {[raised |-> FALSE, job |-> o] : o \in JobOutcomes(remote[id[2]], mayRun)}
    \cup {[raised |-> TRUE, job |-> remote[id[2]]]}

\* Faulty variant: a failed job is polled again, like a running one
AfterPollFailedLoops(status) ==
    IF status = "success" THEN "returned" ELSE "poll"

\* The poll loop: "success" breaks, "failed" raises, anything else sleeps
\* and polls again.
AfterPoll(status) ==
    CASE status = "success" -> "returned"
      [] status = "failed"  -> "raised"
      [] OTHER              -> "poll"

\* Faulty variant: the text of a failed job is saved too
PersistsWhenEnded(status) == status \in {"success", "failed"}

\* The cache file is written behind the poll loop, which only "success"
\* leaves by break.
Persists(status) == status = "success"

\* One turn of the poll loop, and what follows the loop on success: the
\* cache file is written and the text returned.
Poll ==
    /\ apc = "poll"
    /\ polls' = polls + 1
    /\ \E answer \in get_asr_result(task_id, running < MaxRunning) :
         LET status == IF answer.raised THEN "exception" ELSE answer.job.status
         IN  /\ remote' = [remote EXCEPT ![task_id[2]] = answer.job]
             /\ events' = Append(events, Event("poll", task_id, status))
             /\ apc' = IF answer.raised THEN "raised" ELSE AfterPoll(status)
             /\ cacheFiles' =
                  IF Persists(status)
                  THEN WriteFile(cacheFiles, CachePath(audio_file_path),
                                 WriteText(answer.job.text))
                  ELSE cacheFiles
             /\ aresult' =
                  CASE status = "success" ->
                         [kind |-> "return", text |-> answer.job.text]
                    [] status = "failed" ->
                         [kind |-> "raise", error |-> "Volcengine ASR failed",
                          message |-> answer.job.message]
                    [] status = "exception" ->
                         [kind |-> "raise", error |-> "query"]
                    [] OTHER -> aresult
             /\ running' = IF status = "running" THEN running + 1 ELSE running
    /\ UNCHANGED <<calls, audio_file_path, resume_task_id, task_id_callback,
                   task_id, jobs, uploads, submits, callbackLog, asrLog,
                   task_data,
                   ttsVars, auxVars>>

\* What asrLog keeps of a call.
LogEntry(result) ==
    [path |-> audio_file_path, resume |-> resume_task_id,
     callback |-> task_id_callback, task |-> task_id,
     result |-> result, uploads |-> uploads, submits |-> submits,
     polls |-> polls, callbacks |-> callbackLog, events |-> events]

\* The call is over; the caller may call again.
AsrReturn ==
    /\ apc \in {"returned", "raised"}
    /\ apc' = "idle"
    /\ asrLog' = Append(asrLog, LogEntry(aresult))
    /\ UNCHANGED <<calls, audio_file_path, resume_task_id, task_id_callback,
                   task_id, cacheFiles, jobs, uploads, submits, polls, running,
                   callbackLog, aresult, events, remote, task_data,
                   ttsVars, auxVars>>

(***************************************************************************)
(* app.py, process_video_step: the transcription step of a task            *)
(***************************************************************************)
\* What the uploaded or downloaded source holds.
Contents == {"talk1", "talk2"}

\* extract_audio(video_path, audio_path) writes the audio of the source to
\* <task_dir>/<source name>.mp3, over the file of that name if there is
\* one; then transcriber.transcribe(audio_path): the audio of the task is
\* all the call is given, no task id to resume and no callback.
process_video_step ==
    /\ apc = "idle"
    /\ calls < MaxCalls
    /\ calls' = calls + 1
    /\ \E path \in ExistingAudio, content \in Contents :
         /\ extracted' = Append(extracted, [path |-> path, content |-> content])
         /\ transcribe_volc(path, None, FALSE)
    /\ UNCHANGED <<task_data, ttsVars, fnVars, cacheVars, segVars, pollVars>>

\* The step ends: a transcript is saved in the task state
\* (update_task_data), an exception is shown to the user.
StepEnd ==
    /\ apc \in {"returned", "raised"}
    /\ apc' = "idle"
    /\ asrLog' = Append(asrLog, LogEntry(aresult))
    /\ task_data' =
         IF aresult.kind = "return"
         THEN WriteFile(task_data, <<audio_file_path, "transcript_text">>,
                        aresult.text)
         ELSE task_data
    /\ UNCHANGED <<calls, audio_file_path, resume_task_id, task_id_callback,
                   task_id, cacheFiles, jobs, uploads, submits, polls, running,
                   callbackLog, aresult, events, remote,
                   ttsVars, auxVars>>

\* The process stops while the step is under way and is started again:
\* what the step held in memory is gone, the files and the service's jobs
\* are as they were.
Restart ==
    /\ apc \in {"upload", "submit", "poll"}
    /\ apc' = "idle"
    /\ aresult' = [kind |-> "killed"]
    /\ asrLog' = Append(asrLog, LogEntry([kind |-> "killed"]))
    /\ UNCHANGED <<calls, audio_file_path, resume_task_id, task_id_callback,
                   task_id, cacheFiles, jobs, uploads, submits, polls, running,
                   callbackLog, events, remote, task_data,
                   ttsVars, auxVars>>


(***************************************************************************)
(* Two calls of transcribe_volc for one audio, around the cache file       *)
(***************************************************************************)
Callers == {1, 2}

\* Transcripts the service may hold for the audio; none is empty, so that
\* an empty cache file is told from a written one.
Payloads == {<<"a">>, <<"a", "b">>, <<"a", "nl", "b">>}

NoText == [kind |-> "none", text |-> <<>>]

NoCacheFile == [exists |-> FALSE, data |-> <<>>]

\* No call of this kind is under way.
CacheIdle ==
    /\ cpc = [c \in Callers |-> "idle"]
    /\ ctext = [c \in Callers |-> NoText]
    /\ cpos = [c \in Callers |-> 0]
    /\ cdisk = NoCacheFile
    /\ payload = <<>>

\* Both calls have passed the check of the audio file and stand before
\* the cache lookup; no cache file is there.
CacheStart ==
    /\ cpc = [c \in Callers |-> "check"]
    /\ ctext = [c \in Callers |-> NoText]
    /\ cpos = [c \in Callers |-> 0]
    /\ cdisk = NoCacheFile
    /\ payload \in Payloads

\* A write of block at offset pos of a file: the file is filled with zero
\* bytes up to pos if it is shorter, and keeps what is behind the block.
WriteAt(data, pos, block) ==
    LET padded == data \o [k \in 1..(pos - Len(data)) |-> "nul"]
    IN  SubSeq(padded, 1, pos) \o block
          \o SubSeq(padded, pos + Len(block) + 1, Len(padded))

\* if os.path.exists(cache_file):
CacheCheck ==
    /\ \E c \in Callers :
         /\ cpc[c] = "check"
         /\ cpc' = [cpc EXCEPT ![c] = IF cdisk.exists THEN "read" ELSE "work"]
    /\ UNCHANGED <<ctext, cpos, cdisk, payload,
                   ttsVars, asrVars, fnVars, extracted, segVars, pollVars>>

\* with open(cache_file, "r") as f: return f.read()
CacheRead ==
    /\ \E c \in Callers :
         /\ cpc[c] = "read"
         /\ ctext' = [ctext EXCEPT ![c] = [kind |-> "hit", text |-> ReadText(cdisk.data)]]
         /\ cpc' = [cpc EXCEPT ![c] = "done"]
    /\ UNCHANGED <<cpos, cdisk, payload,
                   ttsVars, asrVars, fnVars, extracted, segVars, pollVars>>

\* Upload, submission and polls, until the service has the transcript.
Recognise ==
    /\ \E c \in Callers :
         /\ cpc[c] = "work"
         /\ cpc' = [cpc EXCEPT ![c] = "open"]
    /\ UNCHANGED <<ctext, cpos, cdisk, payload,
                   ttsVars, asrVars, fnVars, extracted, segVars, pollVars>>

\* open(cache_file, "w"): the file is created, or cut to no data.
CacheOpen ==
    /\ \E c \in Callers :
         /\ cpc[c] = "open"
         /\ cdisk' = [exists |-> TRUE, data |-> <<>>]
         /\ cpos' = [cpos EXCEPT ![c] = 0]
         /\ cpc' = [cpc EXCEPT ![c] = "write"]
    /\ UNCHANGED <<ctext, payload,
                   ttsVars, asrVars, fnVars, extracted, segVars, pollVars>>

\* f.write(transcript): the buffer is flushed to the file when it is full,
\* a part of the text at a time.
CacheFlush ==
    /\ \E c \in Callers :
         /\ cpc[c] = "write"
         /\ \E upto \in (cpos[c] + 1)..(Len(payload) - 1) :
              /\ cdisk' = [cdisk EXCEPT !.data =
                     WriteAt(cdisk.data, cpos[c],
                             SubSeq(WriteText(payload), cpos[c] + 1, upto))]
              /\ cpos' = [cpos EXCEPT ![c] = upto]
    /\ UNCHANGED <<cpc, ctext, payload,
                   ttsVars, asrVars, fnVars, extracted, segVars, pollVars>>

\* The with block ends: the rest of the text is flushed, the file is
\* closed and the call returns the transcript.
CacheClose ==
    /\ \E c \in Callers :
         /\ cpc[c] = "write"
         /\ cdisk' = [cdisk EXCEPT !.data =
                WriteAt(cdisk.data, cpos[c],
                        SubSeq(WriteText(payload), cpos[c] + 1, Len(payload)))]
         /\ cpos' = [cpos EXCEPT ![c] = Len(payload)]
         /\ ctext' = [ctext EXCEPT ![c] = [kind |-> "fresh", text |-> payload]]
         /\ cpc' = [cpc EXCEPT ![c] = "done"]
    /\ UNCHANGED <<payload,
                   ttsVars, asrVars, fnVars, extracted, segVars, pollVars>>

(***************************************************************************)
(* Two calls of generate_dialogue_audio, around their segment files        *)
(***************************************************************************)
RunIds == {1, 2}

\* dirname(output_file): the directory of a task, or "temp" when the
\* session has no task.
OutputDirs == {"tasks/t1", "tasks/t2", "temp"}

\* The roles of the chunks of a script, in order.
RoleLists ==
    {<<r>> : r \in Roles} \cup {<<r1, r2>> : r1 \in Roles, r2 \in Roles}

NoFile == <<>>

\* os.path.join(os.path.dirname(output_file), "temp", "segments",
\*              f"seg_{global_seg_index}_{role}.mp3")
SegmentFile(dir, index, who) == <<dir, index, who>>

\* No call of this kind is under way.
SegIdle ==
    /\ spc = [r \in RunIds |-> "idle"]
    /\ sdir = [r \in RunIds |-> "temp"]
    /\ sroles = [r \in RunIds |-> <<>>]
    /\ sidx = [r \in RunIds |-> 0]
    /\ swriting = [r \in RunIds |-> NoFile]
    /\ swritten = [r \in RunIds |-> <<>>]

\* Both sessions are about to press the button.
SegBegin ==
    /\ spc = [r \in RunIds |-> "start"]
    /\ sdir = [r \in RunIds |-> "temp"]
    /\ sroles = [r \in RunIds |-> <<>>]
    /\ sidx = [r \in RunIds |-> 0]
    /\ swriting = [r \in RunIds |-> NoFile]
    /\ swritten = [r \in RunIds |-> <<>>]

\* The call is made with the output file of the session's task, or of no
\* task; global_seg_index = 0.
SegStart ==
    /\ \E r \in RunIds, dir \in OutputDirs, list \in RoleLists :
         /\ spc[r] = "start"
         /\ sdir' = [sdir EXCEPT ![r] = dir]
         /\ sroles' = [sroles EXCEPT ![r] = list]
         /\ sidx' = [sidx EXCEPT ![r] = 0]
         /\ spc' = [spc EXCEPT ![r] = "loop"]
    /\ UNCHANGED <<swriting, swritten,
                   ttsVars, asrVars, fnVars, extracted, cacheVars, pollVars>>

\* seg_file is named, global_seg_index += 1, and the synthesis begins to
\* write seg_file.
SegOpen ==
    /\ \E r \in RunIds :
         /\ spc[r] = "loop"
         /\ sroles[r] # <<>>
         /\ swriting' = [swriting EXCEPT ![r] =
                SegmentFile(sdir[r], sidx[r], Head(sroles[r]))]
         /\ sidx' = [sidx EXCEPT ![r] = sidx[r] + 1]
         /\ spc' = [spc EXCEPT ![r] = "writing"]
    /\ UNCHANGED <<sdir, sroles, swritten,
                   ttsVars, asrVars, fnVars, extracted, cacheVars, pollVars>>

\* The synthesis has written seg_file; the loop goes on to the next chunk.
SegClose ==
    /\ \E r \in RunIds :
         /\ spc[r] = "writing"
         /\ swritten' = [swritten EXCEPT ![r] = Append(swritten[r], swriting[r])]
         /\ swriting' = [swriting EXCEPT ![r] = NoFile]
         /\ sroles' = [sroles EXCEPT ![r] = Tail(sroles[r])]
         /\ spc' = [spc EXCEPT ![r] = "loop"]
    /\ UNCHANGED <<sdir, sidx,
                   ttsVars, asrVars, fnVars, extracted, cacheVars, pollVars>>

\* No chunk is left: the call goes on to the stitching.
SegEnd ==
    /\ \E r \in RunIds :
         /\ spc[r] = "loop"
         /\ sroles[r] = <<>>
         /\ spc' = [spc EXCEPT ![r] = "done"]
    /\ UNCHANGED <<sdir, sroles, sidx, swriting, swritten,
                   ttsVars, asrVars, fnVars, extracted, cacheVars, pollVars>>

(***************************************************************************)
(* The poll loop of transcribe_volc and the service's answers              *)
(***************************************************************************)
Versions == {"v1", "v2"}

\* An answer of the service to a query: the code (resp.code of the V1
\* API, the header X-Api-Status-Code of the V2 API), whether the body has
\* the recognised text ("text" in V1, "result" in V2), and that text.
Answer(code, has_result, text) ==
    [code |-> code, has_result |-> has_result, text |-> text]

\* The job waits or is worked on: V1 codes from 2000, V2 codes 20000001
\* and 20000002.
RunningAnswers(version) ==
    IF version = "v1"
    THEN {Answer(code, FALSE, <<>>) : code \in {2000, 2001}}
    ELSE {Answer(code, FALSE, <<>>) : code \in {20000001, 20000002}}

\* The job has ended: with the text, with the code of success and a body
\* without the text, or with a code of failure (V1: 1013; V2: 20000003 for
\* silent audio, 45000001 for a request the service rejects).
TerminalAnswers(version) ==
    IF version = "v1"
    THEN {Answer(1000, TRUE, t) : t \in Transcripts}
         \cup {Answer(1000, FALSE, <<>>), Answer(1013, FALSE, <<>>)}
    ELSE {Answer(20000000, TRUE, t) : t \in Transcripts}
         \cup {Answer(20000000, FALSE, <<>>), Answer(20000003, FALSE, <<>>),
               Answer(45000001, FALSE, <<>>)}

Outcome(status, text, message) ==
    [status |-> status, text |-> text, message |-> message]

\* code == 1000: success, with resp_body.get("text", ""); code < 2000:
\* failed; any other code: running.
get_asr_result_v1(answer) ==
    IF answer.code = 1000
    THEN Outcome("success", IF answer.has_result THEN answer.text ELSE <<>>, "")
    ELSE IF answer.code < 2000
         THEN Outcome("failed", <<>>, "1013: audio error")
         ELSE Outcome("running", <<>>, "")

\* "20000000": success if the body has "result", else running;
\* "20000001", "20000002": running; "20000003": failed; any other code
\* raises.
get_asr_result_v2(answer) ==
    CASE answer.code = 20000000 ->
           IF answer.has_result
           THEN Outcome("success", answer.text, "")
           ELSE Outcome("running", <<>>, "")
      [] answer.code \in {20000001, 20000002} -> Outcome("running", <<>>, "")
      [] answer.code = 20000003 ->
           Outcome("failed", <<>>, "Silent audio detected (20000003)")
      [] OTHER -> Outcome("exception", <<>>, "ASR Query Failed (V2)")

\* get_asr_result(task_id) of the configured version.
get_asr_result_of(version, answer) ==
    IF version = "v2" THEN get_asr_result_v2(answer) ELSE get_asr_result_v1(answer)

NoOutcome == Outcome("none", <<>>, "")

\* No call of this kind is under way.
PollIdle ==
    /\ qpc = "idle"
    /\ qhow = "submitted"
    /\ qversion = "v1"
    /\ qjob = Answer(0, FALSE, <<>>)
    /\ qwaited = FALSE
    /\ qresult = NoOutcome

\* The call has a task id, from its submission (the job is new) or given
\* to it to resume (the job is in any state), and enters the poll loop.
PollStart ==
    /\ qpc = "poll"
    /\ qversion \in Versions
    /\ qhow \in {"submitted", "resumed"}
    /\ qjob \in RunningAnswers(qversion)
                \cup (IF qhow = "resumed" THEN TerminalAnswers(qversion) ELSE {})
    /\ qwaited = FALSE
    /\ qresult = NoOutcome

\* The service ends the job.
ProviderEnds ==
    /\ qjob \in RunningAnswers(qversion)
    /\ qjob' \in TerminalAnswers(qversion)
    /\ UNCHANGED <<qpc, qhow, qversion, qwaited, qresult,
                   ttsVars, asrVars, fnVars, extracted, cacheVars, segVars>>

\* result = get_asr_result(task_id) and the branches on its status.
PollRequest ==
    /\ qpc = "poll"
    /\ LET result == get_asr_result_of(qversion, qjob)
       IN  /\ qpc' = CASE result.status = "success"   -> "returned"
                       [] result.status = "failed"    -> "raised"
                       [] result.status = "exception" -> "raised"
                       [] OTHER                       -> "sleep"
           /\ qresult' = IF result.status = "running" THEN qresult ELSE result
    /\ UNCHANGED <<qhow, qversion, qjob, qwaited,
                   ttsVars, asrVars, fnVars, extracted, cacheVars, segVars>>

\* time.sleep(2), and the loop turns.
PollSleep ==
    /\ qpc = "sleep"
    /\ qpc' = "poll"
    /\ qwaited' = TRUE
    /\ UNCHANGED <<qhow, qversion, qjob, qresult,
                   ttsVars, asrVars, fnVars, extracted, cacheVars, segVars>>

(***************************************************************************)
(* split_text_smart, the stamps of a cue and synthesize_speech, applied to  *)
(* arguments of their own                                                  *)
(***************************************************************************)
\* The characters of the texts: speakable ones, a space, a comma and
\* three of the sentence marks.
SplitAlphabet == {"a", "b", " ", ",", "fwstop", "?", "fwsemi"}

\* The longest text.
MaxLen == 4

Utterances == UNION {[1..k -> SplitAlphabet] : k \in 0..MaxLen}

\* Times in milliseconds: hours, minutes, seconds and milliseconds at the
\* ends of their ranges and next to them.
Millis ==
    {((h * 60 + m) * 60 + sec) * 1000 + f :
        h \in {0, 1, 99}, m \in {0, 1, 59}, sec \in {0, 1, 59}, f \in {0, 1, 999}}

\* The voices a call of synthesize_speech is given.
VolcVoices == {StandardVoice, ClonedVoice, TypedVoice}

NotCalled == Call("unset", 0, "none")

\* No function is being applied.
FnIdle ==
    /\ fpc = "idle"
    /\ text_in = <<>>
    /\ chunks_out = <<>>
    /\ ms_in = 0
    /\ dur_in = 0
    /\ stamps_out = <<>>
    /\ voice_in = <<>>
    /\ resps_in = <<>>
    /\ cred_in = FALSE
    /\ call_out = NotCalled

\* An argument is chosen for one of the functions.
FnInit ==
    /\ chunks_out = <<>>
    /\ stamps_out = <<>>
    /\ call_out = NotCalled
    /\ \/ /\ fpc = "split"
          /\ text_in \in Utterances
          /\ ms_in = 0
          /\ dur_in = 0
          /\ voice_in = <<>>
          /\ resps_in = <<>>
          /\ cred_in = FALSE
       \/ /\ fpc = "cue"
          /\ text_in = <<>>
          /\ ms_in \in Millis
          /\ dur_in \in Durations
          /\ voice_in = <<>>
          /\ resps_in = <<>>
          /\ cred_in = FALSE
       \/ /\ fpc = "synth"
          /\ text_in = <<"a">>
          /\ ms_in = 0
          /\ dur_in = 0
          /\ voice_in \in VolcVoices
          /\ resps_in \in ResponsesOf("volc", voice_in)
          /\ cred_in \in BOOLEAN

\* chunks = split_text_smart(text)
ApplySplit ==
    /\ fpc = "split"
    /\ chunks_out' = split_text_smart(text_in)
    /\ fpc' = "split_done"
    /\ UNCHANGED <<text_in, ms_in, dur_in, stamps_out, voice_in, resps_in,
                   cred_in, call_out, ttsVars, asrVars,
                   extracted, cacheVars, segVars, pollVars>>

\* The stamps of the cue of a segment that starts at current_time_ms and
\* lasts duration, as the subtitle text carries them.
ApplyCue ==
    /\ fpc = "cue"
    /\ LET cue == Cue(1, ms_in, ms_in + dur_in,
                      [file |-> <<0, "host">>, content |-> <<"a">>, role |-> "host"])
       IN  stamps_out' = <<StampText(cue.start), StampText(cue.end)>>
    /\ fpc' = "cue_done"
    /\ UNCHANGED <<text_in, chunks_out, ms_in, dur_in, voice_in, resps_in,
                   cred_in, call_out, ttsVars, asrVars,
                   extracted, cacheVars, segVars, pollVars>>

\* service.synthesize_speech(text, voice_type, output_file, speed_ratio)
ApplySynth ==
    /\ fpc = "synth"
    /\ call_out' = synthesize_speech(text_in, voice_in, resps_in, cred_in)
    /\ fpc' = "synth_done"
    /\ UNCHANGED <<text_in, chunks_out, ms_in, dur_in, stamps_out, voice_in,
                   resps_in, cred_in, ttsVars, asrVars,
                   extracted, cacheVars, segVars, pollVars>>

(***************************************************************************)
(* Specifications                                                          *)
(***************************************************************************)
\* No step has extracted an audio.
AppIdle == extracted = <<>>

Init == TtsInit /\ AsrInit /\ FnIdle /\ AppIdle /\ CacheIdle /\ SegIdle /\ PollIdle

\* Calls of generate_dialogue_audio, one after the other, on one task
\* directory.
Next ==
    \/ StartRun
    \/ NextLine
    \/ SynthChunk
    \/ EndLines
    \/ StitchSegment
    \/ Export
    \/ JsonSegment
    \/ WriteJson
    \/ Return

Spec == Init /\ [][Next]_vars

\* Calls of transcribe_volc, one after the other.
AsrNext ==
    \/ AsrCall
    \/ Upload
    \/ Submit
    \/ Callback
    \/ Poll
    \/ AsrReturn

SpecAsr == Init /\ [][AsrNext]_vars

\* The transcription step of the application, repeated by the user, with
\* the process stopping and starting again in between.
AppNext ==
    \/ process_video_step
    \/ Upload
    \/ Submit
    \/ Poll
    \/ Restart
    \/ StepEnd

SpecApp == Init /\ [][AppNext]_vars

\* Calls of generate_dialogue_audio that may be interrupted, with another
\* writer on the task directory.
EnvNext ==
    \/ StartRun
    \/ NextLine
    \/ SynthChunk
    \/ EndLines
    \/ StitchSegment
    \/ Export
    \/ JsonSegment
    \/ WriteJson
    \/ Return
    \/ Cancel
    \/ OtherWriter

SpecEnv == Init /\ [][EnvNext]_vars

\* Two calls of transcribe_volc for one audio at the same time.
CacheNext ==
    \/ CacheCheck
    \/ CacheRead
    \/ Recognise
    \/ CacheOpen
    \/ CacheFlush
    \/ CacheClose

InitCache == TtsInit /\ AsrInit /\ FnIdle /\ AppIdle /\ CacheStart /\ SegIdle /\ PollIdle

SpecCache == InitCache /\ [][CacheNext]_vars

\* Two calls of generate_dialogue_audio at the same time.
SegNext ==
    \/ SegStart
    \/ SegOpen
    \/ SegClose
    \/ SegEnd

InitSeg == TtsInit /\ AsrInit /\ FnIdle /\ AppIdle /\ CacheIdle /\ SegBegin /\ PollIdle

SpecSeg == InitSeg /\ [][SegNext]_vars

\* The poll loop of one call, the thread of the call running on and the
\* service ending the job in time.
PollNext ==
    \/ ProviderEnds
    \/ PollRequest
    \/ PollSleep

InitPoll ==
    TtsInit /\ AsrInit /\ FnIdle /\ AppIdle /\ CacheIdle /\ SegIdle /\ PollStart

SpecPoll ==
    /\ InitPoll
    /\ [][PollNext]_vars
    /\ WF_vars(ProviderEnds)
    /\ WF_vars(PollRequest)
    /\ WF_vars(PollSleep)

\* One function applied to one argument.
FnNext ==
    \/ ApplySplit
    \/ ApplyCue
    \/ ApplySynth

InitFn == TtsInit /\ AsrInit /\ FnInit /\ AppIdle /\ CacheIdle /\ SegIdle /\ PollIdle

SpecFn == InitFn /\ [][FnNext]_vars

(***************************************************************************)
(* Properties of generate_dialogue_audio (specification Spec)              *)
(***************************************************************************)
Ended == pc \in {"returned", "raised"}

Completed == pc = "returned"

\* The milliseconds a stamp HH:MM:SS,mmm of the subtitle file reads as.
SrtMs(stamp) == ((stamp[1] * 60 + stamp[2]) * 60 + stamp[3]) * 1000 + stamp[4]

\* The role a cue's colour stands for.
RoleOfColor(c) == IF c = "#FFD700" THEN "host" ELSE "guest"

Cues == out_srt[1]

Captions == out_json[1].captions

\* The length of the audio of the k-th assembled segment.
SegmentDuration(k) == segFiles[valid_segments[k].file]

ResultsOf(results) == {k \in 1..Len(chunkLog) : chunkLog[k].result \in results}

\* C1: in every completed run the timeline starts at 0, every entry ends
\* its segment's duration after it starts, and the next entry starts 300 ms
\* after it ends; this holds of the cues' stamps and of the captions.
C1_TimelineContiguous ==
    Completed =>
        /\ Len(Cues) = Len(valid_segments)
        /\ Len(Captions) = Len(valid_segments)
        /\ Len(valid_segments) >= 1
        /\ SrtMs(Cues[1].start) = 0
        /\ Captions[1].start = 0
        /\ \A k \in 1..Len(valid_segments) :
             /\ SrtMs(Cues[k].end) = SrtMs(Cues[k].start) + SegmentDuration(k)
             /\ Captions[k].end = Captions[k].start + SegmentDuration(k)
             /\ k < Len(valid_segments) =>
                  /\ SrtMs(Cues[k].end) + 300 = SrtMs(Cues[k + 1].start)
                  /\ Captions[k].end + 300 = Captions[k + 1].start

\* A completed run of three chunks, one of which failed.
C1_Witness ==
    /\ Completed
    /\ Len(valid_segments) = 2
    /\ ResultsOf({"raise"}) # {}

CueTuples ==
    [k \in 1..Len(Cues) |->
        <<SrtMs(Cues[k].start), SrtMs(Cues[k].end), Cues[k].text,
          RoleOfColor(Cues[k].color)>>]

CaptionTuples ==
    [k \in 1..Len(Captions) |->
        <<Captions[k].start, Captions[k].end, Captions[k].content,
          Captions[k].role>>]

\* C2: in every completed run the (start, end, text, role) tuples read off
\* the subtitle file are, in value and order, those of the caption document.
C2_SubtitleMatchesCaptions == Completed => CueTuples = CaptionTuples

\* A completed run with both roles and a cue that starts after a minute.
C2_Witness ==
    /\ Completed
    /\ \E k \in 1..Len(Cues) : Cues[k].start[2] >= 1
    /\ {Captions[k].role : k \in 1..Len(Captions)} = Roles

NotRaised(entry) == entry.result # "raise"

\* C3: a run of N >= 2 chunks in which one chunk's call raised and every
\* other chunk's audio was written returns, and its timeline is the N - 1
\* other chunks, in script order.
C3_OneFailureDropsOneEntry ==
    ( /\ Ended
      /\ Len(chunkLog) >= 2
      /\ Cardinality(ResultsOf({"raise"})) = 1
      /\ Cardinality(ResultsOf({"written"})) = Len(chunkLog) - 1 )
    => LET others == SelectSeq(chunkLog, NotRaised)
       IN  /\ Completed
           /\ Len(Captions) = Len(chunkLog) - 1
           /\ Len(Cues) = Len(chunkLog) - 1
           /\ \A k \in 1..Len(others) :
                /\ Captions[k].content = others[k].content
                /\ Captions[k].role = others[k].role
                /\ Cues[k].text = others[k].content
                /\ valid_segments[k].file = <<others[k].index, others[k].role>>

\* A returned run of three chunks whose second chunk failed.
C3_Witness ==
    /\ Completed
    /\ Len(chunkLog) = 3
    /\ ResultsOf({"raise"}) = {2}
    /\ ResultsOf({"written"}) = {1, 3}

\* C4: a run in which at least one chunk was synthesized returns and writes
\* the audio, the subtitle file and the caption document, whatever the
\* other chunks did.
C4_PartialResultAccepted ==
    (Ended /\ ResultsOf({"written"}) # {})
    => /\ Completed
       /\ out_mp3 # NotWritten
       /\ out_srt # NotWritten
       /\ out_json # NotWritten

\* C5: a chunk whose call was skipped for want of speakable text has no
\* segment and no timeline entry, and does not keep a run with synthesized
\* chunks from returning.
C5_EmptyChunkExcluded ==
    /\ \A k \in ResultsOf({"none"}) :
         \A m \in 1..Len(valid_segments) :
            valid_segments[m].file[1] # chunkLog[k].index
    /\ (Ended /\ ResultsOf({"none"}) # {} /\ ResultsOf({"written"}) # {})
       => Completed

Dropped(line) == strip(line) = <<>> \/ ParseLine(strip(line)).content = <<>>

ChunksOfLine(line) ==
    IF Dropped(line) THEN 0
    ELSE LET content == ParseLine(strip(line)).content
         IN  IF split_text_smart(content) = <<>> THEN 1
             ELSE Len(split_text_smart(content))

RECURSIVE ChunksOfLines(_)
ChunksOfLines(ls) ==
    IF ls = <<>> THEN 0 ELSE ChunksOfLine(ls[1]) + ChunksOfLines(Tail(ls))

\* C7: the indices given to the chunks are 0, 1, 2, ... in script order,
\* one for every chunk whatever its call did, none for a dropped line, and
\* no two segments of a run carry the same index.
C7_IndicesContiguous ==
    /\ global_seg_index = Len(chunkLog)
    /\ \A k \in 1..Len(chunkLog) :
         /\ chunkLog[k].index = k - 1
         /\ ~Dropped(lines[chunkLog[k].line])
         /\ k > 1 => chunkLog[k - 1].line <= chunkLog[k].line
    /\ \A a, b \in 1..Len(valid_segments) :
         a # b => valid_segments[a].file[1] # valid_segments[b].file[1]
    /\ Ended => global_seg_index = ChunksOfLines(lines)

\* A run over a script with dropped lines and two chunks: one failed, the
\* other was written.
C7_Witness ==
    /\ Ended
    /\ \E l \in 1..Len(lines) : Dropped(lines[l])
    /\ ResultsOf({"raise"}) # {}
    /\ ResultsOf({"written"}) # {}
    /\ global_seg_index = 2

\* C8: the segments stand in the order of their indices at every moment,
\* and a completed run's audio pieces, cues and captions are those
\* segments, one after the other.
C8_SequenceOrder ==
    /\ \A a, b \in 1..Len(valid_segments) :
         a < b => valid_segments[a].file[1] < valid_segments[b].file[1]
    /\ \A m \in 1..Len(valid_segments) :
         valid_segments[m].content = chunkLog[valid_segments[m].file[1] + 1].content
    /\ Completed =>
         /\ Len(final_audio) = 2 * Len(valid_segments)
         /\ \A k \in 1..Len(valid_segments) :
              /\ final_audio[2 * k - 1].src = valid_segments[k].file
              /\ final_audio[2 * k].src = "silent"
              /\ Cues[k].number = k
              /\ Cues[k].text = valid_segments[k].content
              /\ Captions[k].content = valid_segments[k].content

\* A completed run whose first chunk failed and whose two others are in
\* the output.
C8_Witness ==
    /\ Completed
    /\ Len(chunkLog) = 3
    /\ ResultsOf({"raise"}) = {1}
    /\ Len(Captions) = 2

VoiceOf(entry) ==
    IF entry.role = "host" THEN host_config.voice ELSE guest_config.voice

\* The chunks of this run, before the latest, whose audio Volcengine
\* synthesized for the text and the voice of the latest call.
SynthesizedBefore ==
    {k \in 1..(Len(chunkLog) - 1) :
        /\ chunkLog[k].result = "written"
        /\ clean_text_for_tts(chunkLog[k].content) = lastCall.text
        /\ VoiceOf(chunkLog[k]) = lastCall.voice}

Returned(entry) == entry.result.kind = "return"

EventsOf(op) == {k \in 1..Len(events) : events[k].op = op}

\* The call has gone past the file check and the cache lookup.
PastCache == apc \in {"upload", "submit", "callback", "poll"} \/ events # <<>>

\* C11: a call given a task id to resume, and finding no cached
\* transcript, uploads nothing and submits nothing, every poll it makes is
\* for that task id, and when it returns, it returns the text the service
\* holds for that task and the cache file of the audio holds that text.
C11_ResumePollsGivenJob ==
    (resume_task_id # None /\ PastCache)
    => /\ apc \in {"poll", "returned", "raised", "idle"}
       /\ uploads = 0
       /\ submits = 0
       /\ \A k \in 1..Len(events) :
             events[k].op = "poll" /\ events[k].id = resume_task_id
       /\ (aresult.kind = "return")
          => /\ remote[resume_task_id[2]].status = "success"
             /\ aresult.text = remote[resume_task_id[2]].text
             /\ CachePath(audio_file_path) \in DOMAIN cacheFiles
             /\ ReadText(cacheFiles[CachePath(audio_file_path)])
                  = remote[resume_task_id[2]].text

\* A call resumed the job an earlier call had submitted for the same
\* audio, polled it twice or more and returned two lines of text.
C11_Witness ==
    /\ apc = "returned"
    /\ resume_task_id # None
    /\ jobs[resume_task_id[2]] = audio_file_path
    /\ polls >= 2
    /\ aresult.text = <<"a", "nl", "b">>

\* C12: in a call given a callback, a submission that succeeded is
\* followed at once by one invocation of the callback with the task id
\* the submission issued, before any poll and before the call ends, and
\* there is no other invocation; a call in which no submission succeeded
\* (cache hit, resume, failed upload or submission) does not invoke it.
C12_CallbackOnceAfterSubmit ==
    LET issued == {k \in EventsOf("submit") : events[k].status = "ok"}
    IN  /\ (issued = {}) => EventsOf("callback") = {}
        /\ \A s \in issued :
              task_id_callback
              => \/ apc = "callback" /\ s = Len(events)
                 \/ /\ EventsOf("callback") = {s + 1}
                    /\ events[s + 1].id = events[s].id
                    /\ callbackLog = <<events[s].id>>
                    /\ \A q \in EventsOf("poll") : q > s + 1

\* A call with a callback submitted, invoked the callback, polled twice
\* or more and returned.
C12_Witness ==
    /\ apc = "returned"
    /\ task_id_callback
    /\ EventsOf("callback") # {}
    /\ polls >= 2

\* The call that followed the k-th call of the history: finished, or
\* under way.
CallAfter(k) ==
    IF k < Len(asrLog) THEN {asrLog[k + 1]}
    ELSE IF calls > k THEN {LogEntry(aresult)}
    ELSE {}

\* C13 as claimed: when the process stopped during a step whose job the
\* service had accepted and still runs, the next step for that audio
\* uploads nothing and submits nothing, and polls that job.
C13_RestartResumes ==
    \A k \in 1..Len(asrLog) :
        ( /\ asrLog[k].result.kind = "killed"
          /\ asrLog[k].task # None
          /\ remote[asrLog[k].task[2]].status = "running" )
        => \A next \in CallAfter(k) :
              (next.path = asrLog[k].path)
              => /\ next.uploads = 0
                 /\ next.submits = 0
                 /\ \A q \in 1..Len(next.events) :
                       next.events[q].id = asrLog[k].task

\* C14: a poll the service answers with "failed" is the last remote
\* request of the call: the call raises with the service's message, and
\* the audio has no cache file.
C14_FailedJobRaises ==
    \A k \in EventsOf("poll") :
        (events[k].status = "failed")
        => /\ k = Len(events)
           /\ apc \in {"raised", "idle"}
           /\ aresult.kind = "raise"
           /\ aresult.error = "Volcengine ASR failed"
           /\ aresult.message = remote[events[k].id[2]].message
           /\ aresult.message \in FailMessages
           /\ CachePath(audio_file_path) \notin DOMAIN cacheFiles

\* A call polled twice or more and raised on the silent-audio status.
C14_Witness ==
    /\ apc = "raised"
    /\ aresult.kind = "raise"
    /\ aresult.error = "Volcengine ASR failed"
    /\ aresult.message = "Silent audio detected (20000003)"
    /\ polls >= 2

\* C15 as claimed: a call that has polled ends only when the service
\* holds the job as succeeded or failed.
C15_PollUntilTerminal ==
    (apc \in {"returned", "raised"} /\ polls >= 1)
    => remote[task_id[2]].status \in {"success", "failed"}

\* C16: a call makes at most one upload and one submission; an upload or
\* a submission that fails is its last step: the call raises that error,
\* having polled nothing, invoked no callback and written no cache file.
C16_SubmissionFailsFast ==
    /\ uploads <= 1
    /\ submits <= 1
    /\ \A k \in EventsOf("upload") \cup EventsOf("submit") :
          (events[k].status = "exc")
          => /\ k = Len(events)
             /\ apc \in {"raised", "idle"}
             /\ aresult.kind = "raise"
             /\ aresult.error = events[k].op
             /\ polls = 0
             /\ EventsOf("poll") = {}
             /\ callbackLog = <<>>
             /\ EventsOf("callback") = {}
             /\ CachePath(audio_file_path) \notin DOMAIN cacheFiles

\* A call with a callback uploaded the audio and raised on the
\* submission.
C16_Witness ==
    /\ apc = "raised"
    /\ task_id_callback
    /\ uploads = 1
    /\ submits = 1
    /\ aresult.kind = "raise"
    /\ aresult.error = "submit"

(***************************************************************************)
(* Properties of the synthesis calls (specification Spec)                  *)
(***************************************************************************)
\* The latest step called a provider for a chunk with something to say.
Synthesized == lastCall.kind = "synth" /\ lastCall.result # "none"

\* The files of the chunks so far whose call raised no exception.
KeptFiles ==
    LET kept == SelectSeq(chunkLog, NotRaised)
    IN  [k \in 1..Len(kept) |-> <<kept[k].index, kept[k].role>>]

\* C17: a call of the Edge provider makes one to three attempts: every
\* attempt before the last failed, the call returns on an attempt that
\* succeeded and raises only when the third attempt failed; after a raise
\* the chunk alone is missing from valid_segments and the loop goes on
\* with the next chunk.
C17_EdgeRetriesThrice ==
    (Synthesized /\ lastCall.provider = "edge")
    => /\ lastCall.requests \in 1..3
       /\ Len(lastCall.answers) = lastCall.requests
       /\ \A k \in 1..(lastCall.requests - 1) : lastCall.answers[k] = "exc"
       /\ lastCall.result \in {"written", "raise"}
       /\ (lastCall.result = "written")
          <=> (lastCall.answers[lastCall.requests] = "ok")
       /\ (lastCall.result = "raise")
          <=> (lastCall.requests = 3 /\ lastCall.answers[3] = "exc")
       /\ (lastCall.result = "raise")
          => /\ pc \in {"chunk", "line"}
             /\ error = "none"
             /\ [k \in 1..Len(valid_segments) |-> valid_segments[k].file]
                  = KeptFiles
             /\ \A k \in 1..Len(valid_segments) :
                   valid_segments[k].file[1] # lastCall.index

\* An Edge call raised on its third attempt for the second chunk of a
\* line, the first chunk is kept and a third chunk is next.
C17_Witness ==
    /\ Synthesized
    /\ lastCall.provider = "edge"
    /\ lastCall.result = "raise"
    /\ lastCall.requests = 3
    /\ Len(valid_segments) = 1
    /\ pc = "chunk"

\* The identifier begins with the two characters "S_".
BeginsWithS_(voice) == Len(voice) >= 2 /\ voice[1] = "S" /\ voice[2] = "_"

GuestLine(line) == startswith(strip(line), GuestFW) \/ startswith(strip(line), GuestHW)

\* C19: the call for a chunk is given the voice and the provider of
\* guest_config when the chunk's line begins with the guest's prefix and
\* of host_config otherwise (the host's prefix, or none), and the provider
\* called is the one that configuration names.
C19_ConfigOfOwnRole ==
    (lastCall.kind = "synth")
    => LET entry == chunkLog[Len(chunkLog)]
           own   == IF GuestLine(lines[entry.line]) THEN guest_config
                    ELSE host_config
       IN  /\ lastCall.voice = own.voice
           /\ lastCall.provider = own.provider
           /\ lastCall.rate = own.rate
           /\ (own.provider = "edge") <=> (lastCall.endpoint = "edge")
           /\ (own.provider = "volc")
              <=> (lastCall.endpoint \in {"volc", "v3", "v1_icl"})

\* A guest chunk was written by Volcengine in a run whose host speaks
\* with Edge.
C19_Witness ==
    /\ lastCall.kind = "synth"
    /\ lastCall.result = "written"
    /\ chunkLog[Len(chunkLog)].role = "guest"
    /\ host_config.provider = "edge"
    /\ lastCall.endpoint = "v3"

\* C20 as claimed: a run that returned after one or more of its chunks
\* failed has written, with its captions, the number of chunks that
\* failed.
C20_DroppedCountReported ==
    (Completed /\ ResultsOf({"raise"}) # {})
    => /\ "dropped" \in DOMAIN out_json[1]
       /\ out_json[1].dropped = Cardinality(ResultsOf({"raise"}))

(***************************************************************************)
(* Properties of split_text_smart and of the stamps (specification SpecFn) *)
(***************************************************************************)
NotWhitespace(c) == c \notin Whitespace

RECURSIVE Concat(_)
Concat(seqs) == IF seqs = <<>> THEN <<>> ELSE seqs[1] \o Concat(Tail(seqs))

\* The text is the chunks in order, with nothing but whitespace before,
\* between and after them.
RECURSIVE ChunksCover(_, _)
ChunksCover(u, cs) ==
    LET rest == lstrip(u)
    IN  IF cs = <<>> THEN rest = <<>>
        ELSE /\ startswith(rest, cs[1])
             /\ ChunksCover(SubSeq(rest, Len(cs[1]) + 1, Len(rest)), Tail(cs))

\* C22: the chunks split_text_smart returns for a text, put one after the
\* other, are the text but for whitespace before, between and after the
\* chunks: the characters that are no whitespace are the same, in the
\* same order.
C22_ChunksReproduceText ==
    (fpc = "split_done")
    => /\ ChunksCover(text_in, chunks_out)
       /\ SelectSeq(Concat(chunks_out), NotWhitespace)
            = SelectSeq(text_in, NotWhitespace)

\* A text of two sentences with a space after the first mark: the space
\* is at the boundary and is in no chunk.
C22_Witness ==
    /\ fpc = "split_done"
    /\ text_in = <<"a", "fwstop", " ", "b">>
    /\ chunks_out = << <<"a", "fwstop">>, <<"b">> >>

\* The sentence-terminal marks, full-width and half-width.
TerminalMarks == {"fwstop", "fwbang", "fwq", "fwsemi", "!", "?", ";"}

\* C23: every chunk split_text_smart returns is trimmed and not empty and
\* has no terminal mark but, at most, its last character; every chunk but
\* the last ends with a terminal mark, so that a comma ends no chunk; a
\* text with something to say and no terminal mark is one chunk, the
\* trimmed text.
C23_CutsAfterMarksOnly ==
    (fpc = "split_done")
    => /\ \A k \in 1..Len(chunks_out) :
             LET c == chunks_out[k]
             IN  /\ c # <<>>
                 /\ strip(c) = c
                 /\ \A q \in 1..(Len(c) - 1) : c[q] \notin TerminalMarks
                 /\ (k < Len(chunks_out)) => c[Len(c)] \in TerminalMarks
       /\ ( /\ strip(text_in) # <<>>
            /\ \A q \in 1..Len(text_in) : text_in[q] \notin TerminalMarks )
          => chunks_out = <<strip(text_in)>>

\* A text with a comma and one mark at its end is one chunk.
C23_Witness ==
    /\ fpc = "split_done"
    /\ text_in = <<"a", ",", "b", "fwstop">>
    /\ chunks_out = << <<"a", ",", "b", "fwstop">> >>

\* The number a digit character stands for.
DigitValue(c) == CHOOSE d \in 0..9 : DigitChars[d + 1] = c

IsDigit(c) == \E d \in 0..9 : DigitChars[d + 1] = c

\* The number the digits of a text from position a to position b read as.
RECURSIVE Number(_, _, _)
Number(t, a, b) ==
    IF a > b THEN 0 ELSE Number(t, a, b - 1) * 10 + DigitValue(t[b])

\* A stamp is HH:MM:SS,mmm and reads as the number of milliseconds ms.
StampReads(t, ms) ==
    /\ Len(t) = 12
    /\ \A q \in {1, 2, 4, 5, 7, 8, 10, 11, 12} : IsDigit(t[q])
    /\ t[3] = ":" /\ t[6] = ":" /\ t[9] = ","
    /\ Number(t, 4, 5) \in 0..59
    /\ Number(t, 7, 8) \in 0..59
    /\ Number(t, 10, 12) \in 0..999
    /\ Number(t, 1, 2) * 3600000 + Number(t, 4, 5) * 60000
         + Number(t, 7, 8) * 1000 + Number(t, 10, 12) = ms

\* C30: for a cue that starts and ends before 100 hours, the start stamp
\* is HH:MM:SS,mmm with MM and SS in 00..59 and mmm in 000..999 and reads
\* as the start time in milliseconds, and the end stamp likewise as the
\* start time plus the duration.
C30_StampsRenderTimes ==
    (fpc = "cue_done" /\ ms_in + dur_in < 360000000)
    => /\ StampReads(stamps_out[1], ms_in)
       /\ StampReads(stamps_out[2], ms_in + dur_in)

\* A cue that starts at 01:59:59,999 and lasts 61 seconds.
C30_Witness ==
    /\ fpc = "cue_done"
    /\ ms_in = 7199999
    /\ dur_in = 61000
    /\ stamps_out[1] = <<"0", "1", ":", "5", "9", ":", "5", "9", ",", "9", "9", "9">>
    /\ stamps_out[2] = <<"0", "2", ":", "0", "1", ":", "0", "0", ",", "9", "9", "9">>

(***************************************************************************)
(* Properties of the parsing of the script and of the skipped chunks       *)
(* (specification Spec)                                                    *)
(***************************************************************************)
\* The trimmed line begins with the marker and a colon of either width.
Prefixed(ln, marker) ==
    /\ Len(ln) > Len(marker)
    /\ SubSeq(ln, 1, Len(marker)) = marker
    /\ ln[Len(marker) + 1] \in {"fwcolon", ":"}

\* What a line says once its prefix, if it has one, is taken off.
Remainder(ln) ==
    IF Prefixed(ln, <<"zhu", "chi", "ren">>) THEN strip(SubSeq(ln, 5, Len(ln)))
    ELSE IF Prefixed(ln, <<"jia", "bin">>) THEN strip(SubSeq(ln, 4, Len(ln)))
    ELSE ln

\* The chunks the run has made of line k, in the order it made them.
ChunksLogged(k) ==
    LET IsOfLine(entry) == entry.line = k
    IN  SelectSeq(chunkLog, IsOfLine)

\* C24: the chunks come line by line in the order of the script; of every
\* line the loop has passed, a line that says nothing once trimmed and
\* rid of its prefix has no chunk and the loop went on, and any other line
\* has chunks that make up what it says without the prefix, all of the
\* guest's role when the line begins with the guest marker and a colon of
\* either width, and of the host's role otherwise.
C24_OneUtterancePerLine ==
    /\ \A k \in 1..(Len(chunkLog) - 1) : chunkLog[k].line <= chunkLog[k + 1].line
    /\ \A k \in 1..Len(lines) :
          (k < i)
          => LET ln     == strip(lines[k])
                 logged == ChunksLogged(k)
             IN  IF Remainder(ln) = <<>>
                 THEN logged = <<>>
                 ELSE /\ logged # <<>>
                      /\ ChunksCover(Remainder(ln),
                                     [q \in 1..Len(logged) |-> logged[q].content])
                      /\ \A q \in 1..Len(logged) :
                            logged[q].role =
                              IF Prefixed(ln, <<"jia", "bin">>) THEN "guest" ELSE "host"

\* A run has passed a line that is a prefix only and a blank line, and
\* made two guest chunks of the third line, whose colon is half-width.
C24_Witness ==
    /\ Len(lines) = 3
    /\ i > 3
    /\ Remainder(strip(lines[1])) = <<>>
    /\ lines[1] # <<>>
    /\ Len(ChunksLogged(3)) = 2
    /\ chunkLog[1].role = "guest"
    /\ lines[3][3] = ":"

\* C25 as claimed: a call for a chunk whose cleaned text has no letter,
\* digit or ideograph makes no request to the provider.
C25_NoRequestWithoutSpeech ==
    ( /\ lastCall.kind = "synth"
      /\ \A q \in 1..Len(lastCall.text) : ~isalnum(lastCall.text[q]) )
    => lastCall.requests = 0

(***************************************************************************)
(* Properties of a call that is interrupted or has another writer on its   *)
(* segment files (specification SpecEnv)                                   *)
(***************************************************************************)
\* C21 as claimed: in a completed run every cue and the caption of the
\* same number start at the same millisecond and end at the same
\* millisecond, also when a segment file was written anew after the
\* subtitle pass.
C21_OneTimeline ==
    Completed
    => /\ Len(Cues) = Len(Captions)
       /\ \A k \in 1..Len(Cues) :
             /\ SrtMs(Cues[k].start) = Captions[k].start
             /\ SrtMs(Cues[k].end) = Captions[k].end

\* One or more of the three output files has been written by this call.
Exported == out_mp3 # NotWritten \/ out_srt # NotWritten \/ out_json # NotWritten

\* C29: when this call has written an output file, every line of the
\* script has been passed and every chunk attempted, every segment has
\* been stitched, and the audio and the subtitle file are both written;
\* a call interrupted before its last chunk has written none of the
\* three.
C29_NoExportBeforeTheEnd ==
    /\ Exported
       => /\ i > Len(lines)
          /\ Len(chunkLog) = ChunksOfLines(lines)
          /\ Len(srt_content) = Len(valid_segments)
          /\ out_mp3 # NotWritten
          /\ out_srt # NotWritten
    /\ (out_json # NotWritten) => Len(remotion_captions) = Len(valid_segments)
    /\ (error = "KeyboardInterrupt" /\ Len(chunkLog) < ChunksOfLines(lines))
       => ~Exported

\* A second call on the task directory was interrupted after its first
\* chunk of three, the first call having exported.
C29_Witness ==
    /\ runs = 2
    /\ pc = "raised"
    /\ error = "KeyboardInterrupt"
    /\ Len(chunkLog) = 1
    /\ ChunksOfLines(lines) = 3
    /\ segFiles # <<>>
    /\ ~Exported

(***************************************************************************)
(* Properties of the cache of transcripts and of the segment files under   *)
(* calls made at the same time (SpecApp, SpecCache, SpecSeg)               *)
(***************************************************************************)
\* The call of log entry k took its transcript from the cache file.
IsHit(k) == asrLog[k].result.kind = "return" /\ asrLog[k].events = <<>>

\* The call of log entry k had the transcript from the service and wrote
\* the cache file.
WroteCache(k) ==
    \E e \in 1..Len(asrLog[k].events) :
        asrLog[k].events[e].op = "poll" /\ asrLog[k].events[e].status = "success"

\* C28 as claimed: a step that takes its transcript from the cache has
\* extracted audio of the same content as the step that wrote the cache
\* file of that path.
C28_HitOnlyForSameContent ==
    \A k \in 1..Len(asrLog) :
        (k <= Len(extracted) /\ IsHit(k))
        => \A k0 \in 1..(k - 1) :
              (WroteCache(k0) /\ asrLog[k0].path = asrLog[k].path)
              => extracted[k0].content = extracted[k].content

\* C27 as claimed: a call that finds the cache file returns the whole
\* transcript of the audio.
C27_HitReadsWholePayload ==
    \A c \in Callers : ctext[c].kind = "hit" => ctext[c].text = payload

\* The segment files of one call are all different.
OwnFilesDiffer(r) ==
    \A k1, k2 \in 1..Len(swritten[r]) : k1 # k2 => swritten[r][k1] # swritten[r][k2]

\* C26 as claimed: the segment files one call writes are all different,
\* and two calls never have the same segment file open for writing.
C26_NoSharedSegmentFile ==
    /\ \A r \in RunIds :
          /\ OwnFilesDiffer(r)
          /\ swriting[r] # NoFile
             => \A k \in 1..Len(swritten[r]) : swritten[r][k] # swriting[r]
    /\ \A r1, r2 \in RunIds :
          (r1 # r2 /\ swriting[r1] # NoFile) => swriting[r1] # swriting[r2]

(***************************************************************************)
(* The total duration, the provider calls of Volcengine and the segment    *)
(* files of earlier runs (specification Spec)                              *)
(***************************************************************************)
\* len(final_audio): the milliseconds of the pieces appended.
RECURSIVE PiecesLength(_)
PiecesLength(pieces) ==
    IF pieces = <<>> THEN 0
    ELSE Head(pieces).duration + PiecesLength(Tail(pieces))

\* The milliseconds that are the seconds of a durationInSeconds.
TotalMs(seconds) == (seconds[1] * 1000) \div seconds[2]

\* The sum over the captions of (duration + pause).
RECURSIVE CaptionsLength(_)
CaptionsLength(captions) ==
    IF captions = <<>> THEN 0
    ELSE (Head(captions).end - Head(captions).start) + pause_duration
         + CaptionsLength(Tail(captions))

\* C31: in a completed run the durationInSeconds of the caption document,
\* taken in milliseconds, is a whole number of milliseconds that equals
\* the length of the audio exported, the sum over the captions of
\* (duration + 300), and the end of the last caption plus 300.
C31_TotalIsAudioLength ==
    Completed
    => /\ (out_json[1].durationInSeconds[1] * 1000) % out_json[1].durationInSeconds[2] = 0
       /\ TotalMs(out_json[1].durationInSeconds) = PiecesLength(out_mp3[1])
       /\ TotalMs(out_json[1].durationInSeconds) = CaptionsLength(Captions)
       /\ TotalMs(out_json[1].durationInSeconds)
            = Captions[Len(Captions)].end + pause_duration

\* A run of two segments of 800 ms and 61000 ms has completed with a
\* total of 62400 ms.
C31_Witness ==
    /\ Completed
    /\ Len(Captions) = 2
    /\ Captions[1].end - Captions[1].start = 800
    /\ Captions[2].end - Captions[2].start = 61000
    /\ TotalMs(out_json[1].durationInSeconds) = 62400
    /\ PiecesLength(out_mp3[1]) = 62400

\* C32 as claimed: a call for a standard Volcengine voice that returns the
\* output path has written the audio it received to the output file.
C32_StandardReturnsOnlyWithAudio ==
    ( /\ lastCall.kind = "synth"
      /\ lastCall.endpoint = "v3"
      /\ lastCall.result # "raise" )
    => lastCall.result = "written"

\* The chunk of this call whose segment file is file.
ChunkOfFile(file) ==
    {e \in 1..Len(chunkLog) : <<chunkLog[e].index, chunkLog[e].role>> = file}

\* C33 as claimed: every segment appended to the final audio, and so
\* every segment with a cue, is a file that a synthesis call of this run
\* wrote for the chunk of that index and role.
C33_OnlyOwnSegments ==
    \A k \in 1..Len(srt_content) :
        /\ 2 * k <= Len(final_audio)
        /\ final_audio[2 * k - 1].src = valid_segments[k].file
        /\ \E e \in ChunkOfFile(valid_segments[k].file) :
              /\ chunkLog[e].result = "written"
              /\ chunkLog[e].content = valid_segments[k].content

(***************************************************************************)
(* Properties of synthesize_speech applied to a voice and the service's    *)
(* answers (specification SpecFn)                                          *)
(***************************************************************************)
\* An answer after which the loop goes to its next attempt: a status
\* other than 200, or a transport exception.
Retried(answer) == answer \in {"http_err", "transport"}

CarriesRate(body, rate) ==
    \/ "speed_ratio" \in DOMAIN body /\ body.speed_ratio = rate
    \/ "rate" \in DOMAIN body /\ body.rate = edge_rate_percent(rate)

\* C38 as claimed: every synthesis call that makes a remote request
\* carries in it the rate of the configuration the chunk was given to,
\* whichever endpoint it goes to.
C38_RateInEveryRequest ==
    (lastCall.kind = "synth" /\ lastCall.requests > 0)
    => CarriesRate(lastCall.body, lastCall.rate)

(***************************************************************************)
(* The cache file and the end of the poll loop (specification SpecAsr)     *)
(***************************************************************************)
\* The calls made so far, the one under way or just ended being the last.
CallsMade ==
    IF calls > Len(asrLog) THEN Append(asrLog, LogEntry(aresult)) ELSE asrLog

\* The jobs of an audio: those submitted with it and those a call for it
\* was given to resume.
JobsOf(path) ==
    {k \in 1..Len(jobs) :
        \/ jobs[k] = path
        \/ \E c \in 1..Len(CallsMade) :
              CallsMade[c].path = path /\ CallsMade[c].resume = <<"task", k>>}


\* C36: an audio has a cache file only if a job of that audio has
\* succeeded, and the file holds that job's text; a call that found no
\* cached transcript and ends raising (a failed job, a submission that
\* raises, a poll that raises, a callback that raises) leaves the audio
\* without a cache file, and the audio has one only when the call's last
\* request was a poll answered "success".
C36_CacheOnlyFromSuccess ==
    /\ \A path \in ExistingAudio :
          CachePath(path) \in DOMAIN cacheFiles
          => \E k \in JobsOf(path) :
                /\ remote[k].status = "success"
                /\ cacheFiles[CachePath(path)] = WriteText(remote[k].text)
    /\ \A f \in DOMAIN cacheFiles : \E path \in ExistingAudio : f = CachePath(path)
    /\ (PastCache /\ CachePath(audio_file_path) \in DOMAIN cacheFiles)
       => /\ events # <<>>
          /\ events[Len(events)].op = "poll"
          /\ events[Len(events)].status = "success"
          /\ aresult.kind = "return"
    /\ (PastCache /\ aresult.kind = "raise")
       => CachePath(audio_file_path) \notin DOMAIN cacheFiles

\* A first call ended with a failed job and left no cache file; the second
\* call for the same audio had a job succeed and the cache file holds the
\* text of that job.
C36_Witness ==
    /\ Len(asrLog) = 1
    /\ asrLog[1].result.kind = "raise"
    /\ asrLog[1].result.error = "Volcengine ASR failed"
    /\ asrLog[1].path = audio_file_path
    /\ apc = "returned"
    /\ aresult.kind = "return"
    /\ aresult.text # <<>>
    /\ CachePath(audio_file_path) \in DOMAIN cacheFiles
    /\ cacheFiles[CachePath(audio_file_path)] = WriteText(aresult.text)

(***************************************************************************)
(* Two calls for one audio at the same time (specification SpecCache)      *)
(***************************************************************************)
\* The call has been through the upload, the submission and the polls: it
\* has made a remote submission for the audio.
HasSubmitted(c) == cpc[c] \in {"open", "write"} \/ ctext[c].kind = "fresh"

\* C35 as claimed: of two calls for the same audio that run at the same
\* time, at most one makes a remote submission.
C35_OneSubmissionPerInput ==
    \A c1, c2 \in Callers : (HasSubmitted(c1) /\ HasSubmitted(c2)) => c1 = c2

(***************************************************************************)
(* The end of the poll loop (specification SpecPoll)                       *)
(***************************************************************************)
\* C37 as claimed: a call in the poll loop, the service ending the job and
\* no query failing, comes to return or to raise.
C37_PollLoopEnds == (qpc = "poll") ~> (qpc \in {"returned", "raised"})

====
